---- MODULE Spec2Model ----
(***************************************************************************)
(* NetherGaze: the correlation engine (correlation.py) and the whois       *)
(* lookup service (enrichment/whois_lookup.py) as state machines.          *)
(*                                                                         *)
(* Python objects are modelled with a heap: the engine's profile map holds *)
(* references (object ids) to IPProfile objects, and so does every list a  *)
(* read method hands out.                                                  *)
(***************************************************************************)
EXTENDS Integers, Sequences, FiniteSets, TLC

VARIABLES
    heap,                   \* object id -> IPProfile object (models.py IPProfile)
    profiles,               \* CorrelationEngine._profiles: ip -> object id
    porder,                 \* insertion order of the keys of _profiles (dict order)
    request_timestamps,     \* CorrelationEngine._request_timestamps
    ip_request_timestamps,  \* CorrelationEngine._ip_request_timestamps: ip -> list
    new_conn_timestamps,    \* CorrelationEngine._new_conn_timestamps
    known_conn_ips,         \* CorrelationEngine._known_conn_ips
    now,                    \* the wall clock (time.time() / datetime.now())
    ret,                    \* the references last returned by get_profiles / get_profile
    cache,                  \* WhoisLookupService._cache: ip -> (info, timestamp)
    pending,                \* WhoisLookupService._pending
    cache_ttl,              \* WhoisLookupService._cache_ttl
    has_ipwhois,            \* HAS_IPWHOIS: whether the ipwhois package was imported
    queue,                  \* the executor's work queue of submitted _do_lookup tasks
    workers,                \* the _do_lookup tasks the executor's threads are running
    shut,                   \* whether the executor has been shut down
    callers,                \* the threads inside lookup(): position, ip and callback
    last,                   \* the last return of lookup() / get_cached()
    cache_dir,              \* whether WhoisLookupService._cache_dir is configured
    disk,                   \* the content of whois_cache.json: ip -> (info, _ts)
    invoked,                \* the callback invocations made so far: (callback, ip, info)
    upd,                    \* the thread inside update_connections' locked block
    rd,                     \* the thread inside get_aggregate_stats
    agg,                    \* the last AggregateStats returned
    hist,                   \* history: the stats of the engine before and after each
                            \* update that the read in progress has overlapped
    logfs,                  \* the file system at log_path: the path's file, each file's lines
    watcher,                \* the LogWatcher: _file, _inode, _position, _first_open, ...
    tailed,                 \* history of the watcher's polls since it was constructed
    globfs,                 \* the files under the glob pattern: path -> file system at it
    multi,                  \* the MultiLogWatcher: _watchers, _ip_buffers, the cap
    mpolled,                \* what the multi watcher's last poll() and its children returned
    parsed,                 \* the JSON object last given to _parse_json_line, and its outcome
    proc,                   \* the files under proc_path: net/tcp, net/tcp6, socket inode -> pid
    collected,              \* what the last call of get_connections returned
    dashboard,              \* DashboardScreen: _filters, _pre_suspicious_filters, the input
    toggled,                \* history: the last handler run, the filters the mode was enabled from
    matched                 \* the profile the filter state is asked about, and the answer

engineVars == <<heap, profiles, porder, request_timestamps, ip_request_timestamps,
                new_conn_timestamps, known_conn_ips, now, ret>>

diskVars == <<cache_dir, disk, invoked>>

whoisVars == <<cache, pending, cache_ttl, has_ipwhois, queue, workers, shut, callers, last,
               diskVars>>

concVars == <<upd, rd, agg, hist>>

multiVars == <<globfs, multi, mpolled>>

tailVars == <<logfs, watcher, tailed, multiVars>>

parseVars == <<parsed>>

\* The state of the parsers, the collectors and the dashboard, which no action of
\* the engine, the whois service or the watchers touches.
connVars == <<proc, collected>>

filterVars == <<dashboard, toggled, matched>>

otherVars == <<parseVars, connVars, filterVars>>

vars == <<engineVars, whoisVars, concVars, tailVars, otherVars>>

----------------------------------------------------------------------------
(* Bounds of the exploration *)

MaxBatch == 2       \* longest connection batch drawn (besides ExampleBatch)
MaxLogBatch == 2    \* longest log batch drawn
MaxLog == 2         \* log histories are explored up to this length
MaxTs == 3          \* rolling timestamp lists are explored up to this length
MaxTicks == 1       \* the clock is advanced at most this many times
MaxWorkers == 2     \* threads of the whois executor
MaxCallers == 2     \* threads that call lookup()

(* Program constants *)

WINDOW == 60            \* trailing window of the rolling rates, in seconds
DefaultMaxAge == 120    \* default max_age_seconds of trim_stale_profiles
NoTime == -1            \* first_seen / last_seen = None
DefaultCacheTtl == 86400    \* default cache_ttl of the whois service, in seconds
DefaultMaxEntries == 100    \* default max_entries_per_ip of the log watcher

IPs == {"1.2.3.4", "5.6.7.8"}
TCPStates == {"ESTABLISHED", "TIME_WAIT"}
None == "None"
GeoVals == {"US"}
WhoisVals == {"EXAMPLE-NET"}
BytesVals == {0, 1024}
MaxAges == {DefaultMaxAge}

\* an object is named by the ip it was created for and a generation number
Generations == 1..2
Oids == IPs \X Generations

SeqsUpTo(S, n) == UNION {[1..k -> S] : k \in 0..n}
Range(s) == {s[i] : i \in DOMAIN s}

Connection == [remote_ip : IPs, state : TCPStates]

Conn(ip, st) == [remote_ip |-> ip, state |-> st]

ExampleBatch ==
    << Conn("1.2.3.4", "ESTABLISHED"), Conn("1.2.3.4", "TIME_WAIT"),
       Conn("5.6.7.8", "ESTABLISHED") >>

ConnBatches == SeqsUpTo(Connection, MaxBatch) \cup {ExampleBatch}
SmallBatches == SeqsUpTo(Connection, 1)

LogEntry(t, bytes) == [remote_ip : IPs, timestamp : {t}, bytes_sent : bytes]

LogBatches(t, bytes, n) == SeqsUpTo(LogEntry(t, bytes), n)

----------------------------------------------------------------------------
(* models.py: IPProfile *)

NewProfile(ip) ==
    [ ip |-> ip, connections |-> <<>>, log_entries |-> <<>>, geo |-> None,
      whois |-> None, first_seen |-> NoTime, last_seen |-> NoTime,
      total_bytes_sent |-> 0, total_requests |-> 0, request_rate_per_min |-> 0 ]

RECURSIVE CountState(_, _)
CountState(conns, st) ==
    IF conns = <<>> THEN 0
    ELSE (IF Head(conns).state = st THEN 1 ELSE 0) + CountState(Tail(conns), st)

active_connections(p) == CountState(p.connections, "ESTABLISHED")

----------------------------------------------------------------------------
(* The engine state threaded through the loops of the handlers *)

EngineState ==
    [ heap |-> heap, profiles |-> profiles, porder |-> porder,
      request_timestamps |-> request_timestamps,
      ip_request_timestamps |-> ip_request_timestamps,
      new_conn_timestamps |-> new_conn_timestamps,
      known_conn_ips |-> known_conn_ips ]

FreshOid(h, ip) ==
    <<ip, CHOOSE g \in Generations :
            /\ <<ip, g>> \notin DOMAIN h
            /\ \A k \in Generations : <<ip, k>> \notin DOMAIN h => g <= k>>

\* self._profiles.setdefault(ip, IPProfile(ip=ip))
SetDefault(st, ip) ==
    IF ip \in DOMAIN st.profiles THEN st
    ELSE LET o == FreshOid(st.heap, ip)
         IN  [st EXCEPT !.heap = st.heap @@ (o :> NewProfile(ip)),
                        !.profiles = st.profiles @@ (ip :> o),
                        !.porder = Append(st.porder, ip)]

\* objects no longer referenced by the profile map or by a returned list are freed
Collect(h, profs, held) ==
    LET live == Range(profs) \cup Range(held)
    IN  [o \in (DOMAIN h) \cap live |-> h[o]]

Restrict(f, S) == [x \in (DOMAIN f) \cap S |-> f[x]]

\* mutant: a timestamp exactly at the cutoff is kept
TrimWindow_Inclusive(ts, cutoff) == SelectSeq(ts, LAMBDA t : t >= cutoff)

\* [t for t in ts if t > cutoff]
TrimWindow(ts, cutoff) == SelectSeq(ts, LAMBDA t : t > cutoff)

----------------------------------------------------------------------------
(* update_connections *)

\* keys of by_ip, in order of first appearance in the batch
RECURSIVE GroupKeys(_, _)
GroupKeys(conns, seen) ==
    IF conns = <<>> THEN <<>>
    ELSE IF Head(conns).remote_ip \in seen THEN GroupKeys(Tail(conns), seen)
    ELSE <<Head(conns).remote_ip>>
         \o GroupKeys(Tail(conns), seen \cup {Head(conns).remote_ip})

\* by_ip[ip]
ByIp(conns, ip) == SelectSeq(conns, LAMBDA c : c.remote_ip = ip)

\* mutant: the clearing loop is left out (connections are merged, not replaced)
ClearConnections_Skip(st) == st

\* for profile in self._profiles.values(): profile.connections = []
ClearConnections(st) ==
    [st EXCEPT !.heap =
        [o \in DOMAIN st.heap |->
            IF o \in Range(st.profiles)
            THEN [st.heap[o] EXCEPT !.connections = <<>>]
            ELSE st.heap[o]]]

\* mutant: the loop stores a new IPProfile for the ip instead of updating the old one
ApplyConnections_Fresh(st0, ip, conns, t) ==
    LET st == SetDefault(st0, ip)
        o  == st.profiles[ip]
        p2 == [NewProfile(ip) EXCEPT !.connections = conns, !.first_seen = t,
                                     !.last_seen = t]
        st2 == [st EXCEPT !.heap[o] = p2]
    IN  IF ip \notin st.known_conn_ips
        THEN [st2 EXCEPT !.known_conn_ips = st.known_conn_ips \cup {ip},
                         !.new_conn_timestamps = Append(st.new_conn_timestamps, t)]
        ELSE st2

\* mutant: every ip of the batch is recorded as a new connection, known or not
ApplyConnections_AlwaysNew(st0, ip, conns, t) ==
    LET st == SetDefault(st0, ip)
        o  == st.profiles[ip]
        p  == st.heap[o]
        p2 == [p EXCEPT !.connections = conns,
                        !.first_seen = IF p.first_seen = NoTime THEN t ELSE p.first_seen,
                        !.last_seen = t]
        st2 == [st EXCEPT !.heap[o] = p2]
    IN  [st2 EXCEPT !.known_conn_ips = st.known_conn_ips \cup {ip},
                    !.new_conn_timestamps = Append(st.new_conn_timestamps, t)]

\* mutant: the loop records the new-connection event but not the ip as known
ApplyConnections_Unknown(st0, ip, conns, t) ==
    LET st == SetDefault(st0, ip)
        o  == st.profiles[ip]
        p  == st.heap[o]
        p2 == [p EXCEPT !.connections = conns,
                        !.first_seen = IF p.first_seen = NoTime THEN t ELSE p.first_seen,
                        !.last_seen = t]
        st2 == [st EXCEPT !.heap[o] = p2]
    IN  IF ip \notin st.known_conn_ips
        THEN [st2 EXCEPT !.new_conn_timestamps = Append(st.new_conn_timestamps, t)]
        ELSE st2

\* one pass of the loop "for ip, conns in by_ip.items()"
ApplyConnections(st0, ip, conns, t) ==
    LET st == SetDefault(st0, ip)
        o  == st.profiles[ip]
        p  == st.heap[o]
        p2 == [p EXCEPT !.connections = conns,
                        !.first_seen = IF p.first_seen = NoTime THEN t ELSE p.first_seen,
                        !.last_seen = t]
        st2 == [st EXCEPT !.heap[o] = p2]
    IN  IF ip \notin st.known_conn_ips
        THEN [st2 EXCEPT !.known_conn_ips = st.known_conn_ips \cup {ip},
                         !.new_conn_timestamps = Append(st.new_conn_timestamps, t)]
        ELSE st2

RECURSIVE ApplyAll(_, _, _, _)
ApplyAll(st, keys, conns, t) ==
    IF keys = <<>> THEN st
    ELSE ApplyAll(ApplyConnections(st, Head(keys), ByIp(conns, Head(keys)), t),
                  Tail(keys), conns, t)

UpdateConnectionsResult(st, conns, t) ==
    LET st1 == ApplyAll(ClearConnections(st), GroupKeys(conns, {}), conns, t)
    IN  [st1 EXCEPT !.new_conn_timestamps = TrimWindow(st1.new_conn_timestamps, t - WINDOW)]

\* the engine's fields after a locked block has run on them
InstallEngine(st) ==
    /\ heap' = Collect(st.heap, st.profiles, ret)
    /\ profiles' = st.profiles
    /\ porder' = st.porder
    /\ request_timestamps' = st.request_timestamps
    /\ ip_request_timestamps' = st.ip_request_timestamps
    /\ new_conn_timestamps' = st.new_conn_timestamps
    /\ known_conn_ips' = st.known_conn_ips

\* a handler that runs its locked block with no other thread in the engine
Install(st) ==
    /\ InstallEngine(st)
    /\ UNCHANGED whoisVars
    /\ UNCHANGED <<tailVars, otherVars>>
    /\ UNCHANGED concVars

UpdateConnections(conns) ==
    LET st == UpdateConnectionsResult(EngineState, conns, now)
    IN  /\ Len(st.new_conn_timestamps) <= MaxTs
        /\ Install(st)
        /\ UNCHANGED <<now, ret>>

----------------------------------------------------------------------------
(* update_log_entries *)

\* mutant: the entry is inserted at the front of the history
ApplyEntry_Front(st0, entry, t) ==
    LET ip == entry.remote_ip
        st == SetDefault(st0, ip)
        o  == st.profiles[ip]
        p  == st.heap[o]
        p2 == [p EXCEPT !.log_entries = <<entry>> \o p.log_entries,
                        !.total_requests = p.total_requests + 1,
                        !.total_bytes_sent = p.total_bytes_sent + entry.bytes_sent,
                        !.first_seen = IF p.first_seen = NoTime
                                       THEN entry.timestamp ELSE p.first_seen,
                        !.last_seen = entry.timestamp]
        old == IF ip \in DOMAIN st.ip_request_timestamps
               THEN st.ip_request_timestamps[ip] ELSE <<>>
    IN  [st EXCEPT !.heap[o] = p2,
                   !.request_timestamps = Append(st.request_timestamps, t),
                   !.ip_request_timestamps =
                        (ip :> Append(old, t)) @@ st.ip_request_timestamps]

\* one pass of the loop "for entry in entries"
ApplyEntry(st0, entry, t) ==
    LET ip == entry.remote_ip
        st == SetDefault(st0, ip)
        o  == st.profiles[ip]
        p  == st.heap[o]
        p2 == [p EXCEPT !.log_entries = Append(p.log_entries, entry),
                        !.total_requests = p.total_requests + 1,
                        !.total_bytes_sent = p.total_bytes_sent + entry.bytes_sent,
                        !.first_seen = IF p.first_seen = NoTime
                                       THEN entry.timestamp ELSE p.first_seen,
                        !.last_seen = entry.timestamp]
        old == IF ip \in DOMAIN st.ip_request_timestamps
               THEN st.ip_request_timestamps[ip] ELSE <<>>
    IN  [st EXCEPT !.heap[o] = p2,
                   !.request_timestamps = Append(st.request_timestamps, t),
                   !.ip_request_timestamps =
                        (ip :> Append(old, t)) @@ st.ip_request_timestamps]

RECURSIVE ApplyEntries(_, _, _)
ApplyEntries(st, entries, t) ==
    IF entries = <<>> THEN st
    ELSE ApplyEntries(ApplyEntry(st, Head(entries), t), Tail(entries), t)

\* the trimming loop; lists left empty are deleted from the dict
TrimIpTimestamps(ipts, cutoff) ==
    LET keep == {ip \in DOMAIN ipts : TrimWindow(ipts[ip], cutoff) # <<>>}
    IN  [ip \in keep |-> TrimWindow(ipts[ip], cutoff)]

UpdateLogEntriesResult(st, entries, t) ==
    LET st1 == ApplyEntries(st, entries, t)
    IN  [st1 EXCEPT !.request_timestamps = TrimWindow(st1.request_timestamps, t - WINDOW),
                    !.ip_request_timestamps =
                        TrimIpTimestamps(st1.ip_request_timestamps, t - WINDOW)]

UpdateLogEntries(entries) ==
    LET st == UpdateLogEntriesResult(EngineState, entries, now)
    IN  /\ \A ip \in DOMAIN st.profiles :
              Len(st.heap[st.profiles[ip]].log_entries) <= MaxLog
        /\ Len(st.request_timestamps) <= MaxTs
        /\ Install(st)
        /\ UNCHANGED <<now, ret>>

----------------------------------------------------------------------------
(* update_geo, update_whois *)

UpdateGeo(ip, geo) ==
    LET st == SetDefault(EngineState, ip)
        o  == st.profiles[ip]
    IN  /\ Install([st EXCEPT !.heap[o].geo = geo])
        /\ UNCHANGED <<now, ret>>

UpdateWhois(ip, whois) ==
    LET st == SetDefault(EngineState, ip)
        o  == st.profiles[ip]
    IN  /\ Install([st EXCEPT !.heap[o].whois = whois])
        /\ UNCHANGED <<now, ret>>

----------------------------------------------------------------------------
(* trim_stale_profiles *)

\* mutant: the scanning loop does not skip the profiles that have connections
ToRemove_IgnoreConnections(st, max_age_seconds, cutoff) ==
    {ip \in DOMAIN st.profiles :
        LET p == st.heap[st.profiles[ip]]
        IN  \/ (p.total_requests = 0 /\ p.connections = <<>>)
            \/ (p.last_seen # NoTime /\ cutoff - p.last_seen > max_age_seconds)}

\* the profiles the scanning loop appends to to_remove
ToRemove(st, max_age_seconds, cutoff) ==
    {ip \in DOMAIN st.profiles :
        LET p == st.heap[st.profiles[ip]]
        IN  /\ p.connections = <<>>
            /\ \/ p.total_requests = 0
               \/ (p.last_seen # NoTime /\ cutoff - p.last_seen > max_age_seconds)}

\* mutant: the evicted ips stay in the known-ip set
TrimStaleResult_KeepKnown(st, max_age_seconds, cutoff) ==
    LET gone == ToRemove(st, max_age_seconds, cutoff)
    IN  [st EXCEPT !.profiles = Restrict(st.profiles, (DOMAIN st.profiles) \ gone),
                   !.porder = SelectSeq(st.porder, LAMBDA ip : ip \notin gone)]

TrimStaleResult(st, max_age_seconds, cutoff) ==
    LET gone == ToRemove(st, max_age_seconds, cutoff)
    IN  [st EXCEPT !.profiles = Restrict(st.profiles, (DOMAIN st.profiles) \ gone),
                   !.porder = SelectSeq(st.porder, LAMBDA ip : ip \notin gone),
                   !.known_conn_ips = st.known_conn_ips \ gone]

TrimStaleProfiles(max_age_seconds) ==
    /\ Install(TrimStaleResult(EngineState, max_age_seconds, now))
    /\ UNCHANGED <<now, ret>>

----------------------------------------------------------------------------
(* get_profiles, get_profile *)

\* mutant: every profile of the map is listed
Surfaced_All(st) == st.porder

\* p for p in self._profiles.values() if p.connections or p.total_requests > 0
Surfaced(st) ==
    SelectSeq(st.porder, LAMBDA ip :
        LET p == st.heap[st.profiles[ip]]
        IN  p.connections # <<>> \/ p.total_requests > 0)

RateOf(st, ip) ==
    IF ip \in DOMAIN st.ip_request_timestamps
    THEN Len(st.ip_request_timestamps[ip]) ELSE 0

\* the sort key (active_connections, total_requests), compared as tuples
KeyGreater(p, q) ==
    \/ active_connections(p) > active_connections(q)
    \/ /\ active_connections(p) = active_connections(q)
       /\ p.total_requests > q.total_requests

\* list.sort(key=..., reverse=True): stable, descending
RECURSIVE InsertSorted(_, _, _)
InsertSorted(h, sorted, o) ==
    IF sorted = <<>> THEN <<o>>
    ELSE IF KeyGreater(h[o], h[Head(sorted)]) THEN <<o>> \o sorted
    ELSE <<Head(sorted)>> \o InsertSorted(h, Tail(sorted), o)

RECURSIVE SortProfiles(_, _, _)
SortProfiles(h, todo, sorted) ==
    IF todo = <<>> THEN sorted
    ELSE SortProfiles(h, Tail(todo), InsertSorted(h, sorted, Head(todo)))

\* the heap after the loop that stores request_rate_per_min in the listed profiles
WithRates(st) ==
    LET listed == {st.profiles[ip] : ip \in Range(Surfaced(st))}
    IN  [o \in DOMAIN st.heap |->
            IF o \in listed
            THEN [st.heap[o] EXCEPT !.request_rate_per_min = RateOf(st, st.heap[o].ip)]
            ELSE st.heap[o]]

GetProfilesResult(st) ==
    LET s == Surfaced(st)
    IN  SortProfiles(WithRates(st), [i \in DOMAIN s |-> st.profiles[s[i]]], <<>>)

\* keep: whether the caller holds on to the returned list
GetProfiles(keep) ==
    /\ ret' = IF keep THEN GetProfilesResult(EngineState) ELSE <<>>
    /\ heap' = Collect(WithRates(EngineState), profiles, ret')
    /\ UNCHANGED <<profiles, porder, request_timestamps, ip_request_timestamps,
                   new_conn_timestamps, known_conn_ips, now>>
    /\ UNCHANGED whoisVars
    /\ UNCHANGED <<tailVars, otherVars>>
    /\ UNCHANGED concVars

GetProfile(ip, keep) ==
    /\ ret' = IF keep /\ ip \in DOMAIN profiles THEN <<profiles[ip]>> ELSE <<>>
    /\ heap' = Collect(heap, profiles, ret')
    /\ UNCHANGED <<profiles, porder, request_timestamps, ip_request_timestamps,
                   new_conn_timestamps, known_conn_ips, now>>
    /\ UNCHANGED whoisVars
    /\ UNCHANGED <<tailVars, otherVars>>
    /\ UNCHANGED concVars

----------------------------------------------------------------------------
(* the wall clock *)

Tick(d) ==
    /\ now + d <= MaxTicks * d
    /\ now' = now + d
    /\ UNCHANGED <<heap, profiles, porder, request_timestamps, ip_request_timestamps,
                   new_conn_timestamps, known_conn_ips, ret>>
    /\ UNCHANGED whoisVars
    /\ UNCHANGED <<tailVars, otherVars>>
    /\ UNCHANGED concVars

MaxClock == 2       \* the clock is advanced by half windows up to this many times

\* half a window passes
Elapse ==
    /\ now + (WINDOW \div 2) <= MaxClock * (WINDOW \div 2)
    /\ now' = now + (WINDOW \div 2)
    /\ UNCHANGED <<heap, profiles, porder, request_timestamps, ip_request_timestamps,
                   new_conn_timestamps, known_conn_ips, ret>>
    /\ UNCHANGED whoisVars
    /\ UNCHANGED <<tailVars, otherVars>>
    /\ UNCHANGED concVars

----------------------------------------------------------------------------
(* enrichment/whois_lookup.py: WhoisLookupService *)

PrivateIPs == {"192.168.1.100"}
LookupIPs == IPs \cup PrivateIPs
\* the completion callbacks that callers pass to lookup()
Callbacks == {"cb1", "cb2"}
CacheTtls == {0, DefaultCacheTtl}
\* what _do_lookup ends up with: the registry's answer, or the defaults on failure
LookupInfos == {"EXAMPLE-NET", "?"}

\* utils.is_private_ip
is_private_ip(ip) == ip \in PrivateIPs

IdleCaller == [pc |-> "idle", ip |-> None, cb |-> None]
NoReturn == [result |-> None, outcome |-> None]

engineFrame == <<heap, profiles, porder, request_timestamps, ip_request_timestamps,
                 new_conn_timestamps, known_conn_ips, now, ret, concVars, tailVars, otherVars>>

\* calling threads are interchangeable: a call is made by the first thread not in one
FirstIdle(c) ==
    /\ callers[c].pc = "idle"
    /\ \A b \in 1..MaxCallers : callers[b].pc = "idle" => c <= b

\* caller c leaves lookup() / get_cached() with this result
Return(c, ip, result, outcome) ==
    /\ callers' = [callers EXCEPT ![c] = IdleCaller]
    /\ last' = [result |-> result, outcome |-> outcome]

\* mutant: an entry whose age equals the TTL still counts as valid
Fresh_AtTtl(ip, t) == ip \in DOMAIN cache /\ t - cache[ip].ts <= cache_ttl

\* time.time() - ts < self._cache_ttl
Fresh(ip, t) == ip \in DOMAIN cache /\ t - cache[ip].ts < cache_ttl

\* if ip in self._pending
InFlight(ip) == ip \in pending

\* lookup(), up to the end of its first locked block: what it does to the service
LookupLocked(c, ip, cb) ==
    /\ FirstIdle(c)
    /\ IF is_private_ip(ip)
       THEN /\ Return(c, ip, "Private", "private")
            /\ UNCHANGED <<cache, pending>>
       ELSE IF Fresh(ip, now)
       THEN /\ Return(c, ip, cache[ip].info, "cached")
            /\ UNCHANGED <<cache, pending>>
       ELSE /\ cache' = Restrict(cache, (DOMAIN cache) \ {ip})
            /\ IF InFlight(ip)
               THEN /\ Return(c, ip, None, "in_flight")
                    /\ UNCHANGED pending
               ELSE /\ pending' = pending \cup {ip}
                    /\ callers' = [callers EXCEPT ![c] =
                          [pc |-> "marked", ip |-> ip, cb |-> cb]]
                    /\ UNCHANGED last
    /\ UNCHANGED <<cache_ttl, has_ipwhois, queue, workers, shut>>
    /\ UNCHANGED diskVars

\* lookup() called on its own, the engine left alone
LookupBegin(c, ip, cb) ==
    /\ LookupLocked(c, ip, cb)
    /\ UNCHANGED engineFrame

\* lookup(), after the locked block: the HAS_IPWHOIS test and executor.submit
LookupSubmit(c) ==
    /\ callers[c].pc = "marked"
    /\ IF ~has_ipwhois
       THEN /\ pending' = pending \ {callers[c].ip}
            /\ Return(c, callers[c].ip, None, "unavailable")
            /\ UNCHANGED queue
       ELSE IF shut
       THEN \* submit raises RuntimeError: cannot schedule new futures after shutdown
            /\ Return(c, callers[c].ip, None, "raised")
            /\ UNCHANGED <<pending, queue>>
       ELSE /\ queue' = Append(queue, [ip |-> callers[c].ip, cb |-> callers[c].cb])
            /\ Return(c, callers[c].ip, None, "submitted")
            /\ UNCHANGED pending
    /\ UNCHANGED <<cache, cache_ttl, has_ipwhois, workers, shut>>
    /\ UNCHANGED diskVars
    /\ UNCHANGED engineFrame

\* get_cached(): a valid entry or None; the cache is left alone
GetCached(c, ip) ==
    /\ FirstIdle(c)
    /\ IF Fresh(ip, now)
       THEN Return(c, ip, cache[ip].info, "cached")
       ELSE Return(c, ip, None, "not_cached")
    /\ UNCHANGED <<cache, pending, cache_ttl, has_ipwhois, queue, workers, shut>>
    /\ UNCHANGED diskVars
    /\ UNCHANGED engineFrame

\* the task at position w of workers, removed when it ends
Without(seq, w) == [i \in 1..(Len(seq) - 1) |-> IF i < w THEN seq[i] ELSE seq[i + 1]]

\* an idle executor thread takes the next task off the queue and enters _do_lookup
WorkerStart ==
    /\ Len(workers) < MaxWorkers
    /\ queue # <<>>
    /\ workers' = Append(workers,
          [stage |-> "query", ip |-> Head(queue).ip, cb |-> Head(queue).cb, info |-> None,
           data |-> <<>>])
    /\ queue' = Tail(queue)
    /\ UNCHANGED <<cache, pending, cache_ttl, has_ipwhois, shut, callers, last>>
    /\ UNCHANGED diskVars
    /\ UNCHANGED engineFrame

\* mutant: the locked block stores the result but leaves the in-flight mark
WorkerStore_KeepMark(w, info) ==
    /\ w \in DOMAIN workers
    /\ workers[w].stage = "query"
    /\ cache' = (workers[w].ip :> [info |-> info, ts |-> now]) @@ cache
    /\ pending' = pending
    /\ workers' = [workers EXCEPT ![w].stage = "save", ![w].info = info]
    /\ UNCHANGED <<cache_ttl, has_ipwhois, queue, shut, callers, last>>
    /\ UNCHANGED diskVars
    /\ UNCHANGED engineFrame

\* _do_lookup: the registry query has ended (info), and the locked block stores it
WorkerStore(w, info) ==
    /\ w \in DOMAIN workers
    /\ workers[w].stage = "query"
    /\ cache' = (workers[w].ip :> [info |-> info, ts |-> now]) @@ cache
    /\ pending' = pending \ {workers[w].ip}
    /\ workers' = [workers EXCEPT ![w].stage = "save", ![w].info = info]
    /\ UNCHANGED <<cache_ttl, has_ipwhois, queue, shut, callers, last>>
    /\ UNCHANGED diskVars
    /\ UNCHANGED engineFrame

\* what _save_to_disk writes: the content read, with the entry of ip replaced
WithEntry(data, ip, info, t) == (ip :> [info |-> info, ts |-> t]) @@ data

\* _do_lookup: _save_to_disk run from start to end. Without a cache directory it
\* returns at once; with one it rewrites the file (ok), or raises out of the task
WorkerSave(w, ok) ==
    /\ w \in DOMAIN workers
    /\ workers[w].stage = "save"
    /\ IF ~cache_dir
       THEN /\ ok
            /\ workers' = [workers EXCEPT ![w].stage = "callback"]
            /\ UNCHANGED disk
       ELSE IF ok
       THEN /\ disk' = WithEntry(disk, workers[w].ip, workers[w].info, now)
            /\ workers' = [workers EXCEPT ![w].stage = "callback"]
       ELSE /\ workers' = Without(workers, w)
            /\ UNCHANGED disk
    /\ UNCHANGED <<cache, pending, cache_ttl, has_ipwhois, queue, shut, callers, last>>
    /\ UNCHANGED <<cache_dir, invoked>>
    /\ UNCHANGED engineFrame

\* _save_to_disk, first half: the file is read into data
WorkerRead(w) ==
    /\ w \in DOMAIN workers
    /\ workers[w].stage = "save"
    /\ cache_dir
    /\ workers' = [workers EXCEPT ![w].stage = "write", ![w].data = disk]
    /\ UNCHANGED <<cache, pending, cache_ttl, has_ipwhois, queue, shut, callers, last>>
    /\ UNCHANGED diskVars
    /\ UNCHANGED engineFrame

\* _save_to_disk, second half: data[ip] is set and the whole file is written
WorkerWrite(w) ==
    /\ w \in DOMAIN workers
    /\ workers[w].stage = "write"
    /\ disk' = WithEntry(workers[w].data, workers[w].ip, workers[w].info, now)
    /\ workers' = [workers EXCEPT ![w].stage = "callback", ![w].data = <<>>]
    /\ UNCHANGED <<cache, pending, cache_ttl, has_ipwhois, queue, shut, callers, last>>
    /\ UNCHANGED <<cache_dir, invoked>>
    /\ UNCHANGED engineFrame

\* _do_lookup: the callback, if any, is called with (ip, info); the task ends
WorkerCallback(w) ==
    /\ w \in DOMAIN workers
    /\ workers[w].stage = "callback"
    /\ invoked' = IF workers[w].cb = None THEN invoked
                  ELSE invoked \cup {<<workers[w].cb, workers[w].ip, workers[w].info>>}
    /\ workers' = Without(workers, w)
    /\ UNCHANGED <<cache, pending, cache_ttl, has_ipwhois, queue, shut, callers, last>>
    /\ UNCHANGED <<cache_dir, disk>>
    /\ UNCHANGED engineFrame

\* mutant: shutdown(wait=False) without cancel_futures, the queue is kept
Shutdown_KeepQueue ==
    /\ ~shut
    /\ shut' = TRUE
    /\ UNCHANGED <<cache, pending, cache_ttl, has_ipwhois, queue, workers, callers, last>>
    /\ UNCHANGED diskVars
    /\ UNCHANGED engineFrame

\* shutdown(wait=False, cancel_futures=True): queued tasks are cancelled
Shutdown ==
    /\ ~shut
    /\ shut' = TRUE
    /\ queue' = <<>>
    /\ UNCHANGED <<cache, pending, cache_ttl, has_ipwhois, workers, callers, last>>
    /\ UNCHANGED diskVars
    /\ UNCHANGED engineFrame

\* the service after __init__, with no cache file on disk yet
InitService(ttls, available, dirs) ==
    /\ cache = <<>>
    /\ pending = {}
    /\ cache_ttl \in ttls
    /\ has_ipwhois \in available
    /\ cache_dir \in dirs
    /\ disk = <<>>
    /\ invoked = {}
    /\ queue = <<>>
    /\ workers = <<>>
    /\ shut = FALSE
    /\ callers = [c \in 1..MaxCallers |-> IdleCaller]
    /\ last = NoReturn

InitWhois == InitService(CacheTtls, BOOLEAN, {FALSE})

\* the service as the engine's specifications see it: constructed, never called
InitWhoisUnused == InitService({DefaultCacheTtl}, {TRUE}, {FALSE})

----------------------------------------------------------------------------
(* correlation.py: update_connections and get_aggregate_stats as two threads *)

IdleUpdater == [pc |-> "idle", conns |-> <<>>, keys |-> <<>>, t |-> 0]
IdleReader == [pc |-> "idle", i |-> 0, total_conns |-> 0, req_count |-> 0]
NoStats == [total_connections |-> -1, established_connections |-> -1, unique_ips |-> -1,
            total_requests |-> -1, requests_per_minute |-> -1, total_bytes_sent |-> -1]

\* sum(...) of a list
RECURSIVE Sum(_)
Sum(ns) == IF ns = <<>> THEN 0 ELSE Head(ns) + Sum(Tail(ns))

\* list(self._profiles.values())
ProfileList(st) == [i \in DOMAIN st.porder |-> st.profiles[st.porder[i]]]

\* the sums get_aggregate_stats takes after its locked block, over the profiles in refs
StatsOf(h, refs, total_conns, req_count) ==
    [ total_connections |-> total_conns,
      established_connections |->
          Sum([i \in DOMAIN refs |-> active_connections(h[refs[i]])]),
      unique_ips |->
          Cardinality({i \in DOMAIN refs :
              h[refs[i]].connections # <<>> \/ h[refs[i]].log_entries # <<>>}),
      total_requests |-> Sum([i \in DOMAIN refs |-> h[refs[i]].total_requests]),
      requests_per_minute |-> req_count,
      total_bytes_sent |-> Sum([i \in DOMAIN refs |-> h[refs[i]].total_bytes_sent]) ]

\* get_aggregate_stats run from start to end on the state st
AggregateStats(st) ==
    StatsOf(st.heap, ProfileList(st),
            Sum([i \in DOMAIN st.porder |-> Len(st.heap[st.profiles[st.porder[i]]].connections)]),
            Len(st.request_timestamps))

\* update_connections: the lock is taken and the clearing loop runs
UpdBegin(conns) ==
    /\ upd.pc = "idle"
    /\ upd' = [pc |-> "apply", conns |-> conns, keys |-> GroupKeys(conns, {}), t |-> now]
    /\ InstallEngine(ClearConnections(EngineState))
    /\ hist' = IF rd.pc = "idle" THEN hist
               ELSE hist \cup {AggregateStats(UpdateConnectionsResult(EngineState, conns, now))}
    /\ UNCHANGED <<now, ret, rd, agg>>
    /\ UNCHANGED whoisVars
    /\ UNCHANGED <<tailVars, otherVars>>

\* update_connections: one pass of the loop over by_ip
UpdApply ==
    /\ upd.pc = "apply"
    /\ upd.keys # <<>>
    /\ InstallEngine(ApplyConnections(EngineState, Head(upd.keys),
                                      ByIp(upd.conns, Head(upd.keys)), upd.t))
    /\ upd' = [upd EXCEPT !.keys = Tail(upd.keys)]
    /\ UNCHANGED <<now, ret, rd, agg, hist>>
    /\ UNCHANGED whoisVars
    /\ UNCHANGED <<tailVars, otherVars>>

\* update_connections: the timestamps are trimmed and the lock is released
UpdEnd ==
    /\ upd.pc = "apply"
    /\ upd.keys = <<>>
    /\ LET st == [EngineState EXCEPT
                    !.new_conn_timestamps = TrimWindow(new_conn_timestamps, upd.t - WINDOW)]
       IN  InstallEngine(st)
    /\ upd' = IdleUpdater
    /\ UNCHANGED <<now, ret, rd, agg, hist>>
    /\ UNCHANGED whoisVars
    /\ UNCHANGED <<tailVars, otherVars>>

\* get_aggregate_stats: the locked block copies the profile list and the request count
RdBegin ==
    /\ rd.pc = "idle"
    /\ upd.pc = "idle"
    /\ ret' = ProfileList(EngineState)
    /\ rd' = [pc |-> "sum", i |-> 1, total_conns |-> 0,
              req_count |-> Len(request_timestamps)]
    /\ agg' = NoStats
    /\ hist' = {AggregateStats(EngineState)}
    /\ UNCHANGED <<heap, profiles, porder, request_timestamps, ip_request_timestamps,
                   new_conn_timestamps, known_conn_ips, now, upd>>
    /\ UNCHANGED whoisVars
    /\ UNCHANGED <<tailVars, otherVars>>

\* get_aggregate_stats: one term of sum(len(p.connections) for p in profiles)
RdSum ==
    /\ rd.pc = "sum"
    /\ rd.i <= Len(ret)
    /\ rd' = [rd EXCEPT !.i = rd.i + 1,
                        !.total_conns = rd.total_conns + Len(heap[ret[rd.i]].connections)]
    /\ UNCHANGED <<heap, profiles, porder, request_timestamps, ip_request_timestamps,
                   new_conn_timestamps, known_conn_ips, now, ret, upd, agg, hist>>
    /\ UNCHANGED whoisVars
    /\ UNCHANGED <<tailVars, otherVars>>

\* get_aggregate_stats: the remaining sums, and the return
RdEnd ==
    /\ rd.pc = "sum"
    /\ rd.i > Len(ret)
    /\ agg' = StatsOf(heap, ret, rd.total_conns, rd.req_count)
    /\ rd' = IdleReader
    /\ ret' = <<>>
    /\ heap' = Collect(heap, profiles, ret')
    /\ UNCHANGED <<profiles, porder, request_timestamps, ip_request_timestamps,
                   new_conn_timestamps, known_conn_ips, now, upd, hist>>
    /\ UNCHANGED whoisVars
    /\ UNCHANGED <<tailVars, otherVars>>

\* the key of the sort, as the key function computes it from the profile object
SortKey(p) == <<active_connections(p), p.total_requests>>

\* tuples compare element by element
TupleGreater(a, b) == a[1] > b[1] \/ (a[1] = b[1] /\ a[2] > b[2])

\* list.sort(key=..., reverse=True) on the keys taken beforehand: stable, descending
RECURSIVE InsertKeyed(_, _)
InsertKeyed(sorted, item) ==
    IF sorted = <<>> THEN <<item>>
    ELSE IF TupleGreater(item.key, Head(sorted).key) THEN <<item>> \o sorted
    ELSE <<Head(sorted)>> \o InsertKeyed(Tail(sorted), item)

RECURSIVE SortKeyed(_, _)
SortKeyed(todo, sorted) ==
    IF todo = <<>> THEN sorted
    ELSE SortKeyed(Tail(todo), InsertKeyed(sorted, Head(todo)))

\* the list get_profiles returns, from the list it made under the lock and the keys
SortedByKeys(refs, keys) ==
    LET sorted == SortKeyed([i \in DOMAIN refs |-> [key |-> keys[i], ref |-> refs[i]]], <<>>)
    IN  [i \in DOMAIN sorted |-> sorted[i].ref]

\* get_profiles: the locked block lists the surfaced profiles and stores their rates
\* (history: rd.seen collects the heaps the call has read from)
GpBegin ==
    /\ rd.pc = "idle"
    /\ upd.pc = "idle"
    /\ ret' = [i \in DOMAIN Surfaced(EngineState) |-> profiles[Surfaced(EngineState)[i]]]
    /\ heap' = WithRates(EngineState)
    /\ rd' = [pc |-> "keys", i |-> 1, keys |-> <<>>, seen |-> {heap'}]
    /\ UNCHANGED <<profiles, porder, request_timestamps, ip_request_timestamps,
                   new_conn_timestamps, known_conn_ips, now, upd, agg, hist>>
    /\ UNCHANGED whoisVars
    /\ UNCHANGED <<tailVars, otherVars>>

\* get_profiles: the sort, outside the lock, calls the key function for one profile
GpKey ==
    /\ rd.pc = "keys"
    /\ rd.i <= Len(ret)
    /\ rd' = [rd EXCEPT !.i = rd.i + 1, !.keys = Append(rd.keys, SortKey(heap[ret[rd.i]])),
                        !.seen = rd.seen \cup {heap}]
    /\ UNCHANGED <<heap, profiles, porder, request_timestamps, ip_request_timestamps,
                   new_conn_timestamps, known_conn_ips, now, ret, upd, agg, hist>>
    /\ UNCHANGED whoisVars
    /\ UNCHANGED <<tailVars, otherVars>>

\* get_profiles: the list is put in the order of the keys and returned
GpEnd ==
    /\ rd.pc = "keys"
    /\ rd.i > Len(ret)
    /\ rd' = IdleReader
    /\ ret' = <<>>
    /\ heap' = Collect(heap, profiles, ret')
    /\ UNCHANGED <<profiles, porder, request_timestamps, ip_request_timestamps,
                   new_conn_timestamps, known_conn_ips, now, upd, agg, hist>>
    /\ UNCHANGED whoisVars
    /\ UNCHANGED <<tailVars, otherVars>>

\* update_log_entries, which takes the lock for all it does
LockedLogEntries(entries) ==
    /\ upd.pc = "idle"
    /\ UpdateLogEntries(entries)

InitConcUnused ==
    /\ upd = IdleUpdater
    /\ rd = IdleReader
    /\ agg = NoStats
    /\ hist = {}

----------------------------------------------------------------------------
(* collectors/logs.py: LogWatcher *)

MaxAppends == 3     \* lines appended to the log while the watcher runs
MaxChanges == 1     \* times the log is rotated or truncated
MaxPolls == 3       \* polls of the watcher
MaxBuffer == 2      \* max_entries_per_ip of the watcher under study

\* no file / no handle / _inode is None
NoInode == 0

\* what parse_log_line does with a line: returns an entry, returns None (no grammar
\* matches), or raises (a JSON object whose status or size is not a number, or whose
\* request is not an object, passes to int() or .get())
LineKinds == {"match", "nomatch", "raise"}

\* a line of the file; serial tells the lines apart, ip is the client address
Line(serial, kind, ip) == [serial |-> serial, kind |-> kind, ip |-> ip]

\* the contents the log may have when the watcher is constructed
InitContents ==
    {<<>>} \cup {<<Line(0, k, "1.2.3.4")>> : k \in LineKinds}

\* stat.st_size, every line counting one unit
Size(fs) == Len(fs.files[fs.path])

\* buf[-n:]
LastN(buf, n) ==
    IF n = 0 \/ Len(buf) <= n THEN buf ELSE SubSeq(buf, Len(buf) - n + 1, Len(buf))

\* the per-IP buffers after the entries were appended one by one and cut to the cap
RECURSIVE Buffered(_, _, _)
Buffered(bufs, entries, cap) ==
    IF entries = <<>> THEN bufs
    ELSE LET e   == Head(entries)
             old == IF e.ip \in DOMAIN bufs THEN bufs[e.ip] ELSE <<>>
             buf == Append(old, e)
             new == IF Len(buf) > cap THEN LastN(buf, cap) ELSE buf
         IN  Buffered((e.ip :> new) @@ bufs, Tail(entries), cap)

\* the position in lines of the first line on which parse_log_line raises, or 0
FirstRaise(lines) ==
    IF \E i \in DOMAIN lines : lines[i].kind = "raise"
    THEN CHOOSE i \in DOMAIN lines :
            /\ lines[i].kind = "raise"
            /\ \A j \in 1..(i - 1) : lines[j].kind # "raise"
    ELSE 0

\* the entries parse_log_line returns for the lines
Entries(lines) == SelectSeq(lines, LAMBDA l : l.kind = "match")

\* poll(), the rotation check: the handle is closed and the position reset
Reopened(w, fs) ==
    IF w.inode # NoInode /\ (fs.path # w.inode \/ Size(fs) < w.position)
    THEN [w EXCEPT !.file = NoInode, !.inode = NoInode, !.position = 0]
    ELSE w

\* mutant: the first open reads from the start of the file like every other open
Opened_FromStart(w, fs) ==
    IF w.file # NoInode THEN w
    ELSE [w EXCEPT !.file = fs.path, !.inode = fs.path, !.offset = w.position,
                   !.first_open = FALSE]

\* poll(), the open: at the end of the file the first time, at _position afterwards
Opened(w, fs) ==
    IF w.file # NoInode THEN w
    ELSE IF w.first_open
    THEN [w EXCEPT !.file = fs.path, !.inode = fs.path, !.offset = Size(fs),
                   !.position = Size(fs), !.first_open = FALSE]
    ELSE [w EXCEPT !.file = fs.path, !.inode = fs.path, !.offset = w.position]

\* poll(), the loop over the lines of the handle from its offset, and the return:
\* the watcher afterwards, the entries returned, whether the call raised instead
ReadLines(w, fs) ==
    LET content == fs.files[w.file]
        lines   == SubSeq(content, w.offset + 1, Len(content))
        stop    == FirstRaise(lines)
        read    == IF stop = 0 THEN lines ELSE SubSeq(lines, 1, stop)
        bufs    == Buffered(w.ip_buffers, Entries(read), w.max_entries_per_ip)
        offset  == w.offset + Len(read)
    IN  IF stop = 0
        THEN [watcher |-> [w EXCEPT !.offset = offset, !.position = offset,
                                    !.ip_buffers = bufs],
              entries |-> Entries(read), raised |-> FALSE]
        ELSE [watcher |-> [w EXCEPT !.offset = offset, !.ip_buffers = bufs],
              entries |-> <<>>, raised |-> TRUE]

\* poll() run from start to end
PollResult(w, fs) ==
    IF fs.path = NoInode
    THEN [watcher |-> w, entries |-> <<>>, raised |-> FALSE]
    ELSE ReadLines(Opened(Reopened(w, fs), fs), fs)

\* poll() is called; tailed keeps what it returned and what has happened since
Poll ==
    /\ tailed.polls < MaxPolls
    /\ LET r == PollResult(watcher, logfs)
       IN  /\ watcher' = r.watcher
           /\ tailed' = [polls    |-> tailed.polls + 1,
                         entries  |-> r.entries,
                         raised   |-> r.raised,
                         returned |-> tailed.returned \o r.entries,
                         start    |-> IF watcher.first_open /\ ~r.watcher.first_open
                                      THEN r.watcher.position ELSE tailed.start,
                         rotated  |-> FALSE]
    /\ UNCHANGED logfs
    /\ UNCHANGED multiVars
    /\ UNCHANGED <<engineVars, whoisVars, concVars, otherVars>>

\* the server appends one complete line to the file at log_path
AppendLine(kind, ip) ==
    /\ logfs.path # NoInode
    /\ logfs.written < MaxAppends
    /\ logfs' = [logfs EXCEPT
                    !.written = logfs.written + 1,
                    !.files[logfs.path] = Append(@, Line(logfs.written + 1, kind, ip))]
    /\ UNCHANGED <<watcher, tailed>>
    /\ UNCHANGED multiVars
    /\ UNCHANGED <<engineVars, whoisVars, concVars, otherVars>>

\* rotation by rename and create: log_path names a new, empty file of another inode
Rotate ==
    /\ logfs.path # NoInode
    /\ logfs.changes < MaxChanges
    /\ LET inode == Cardinality(DOMAIN logfs.files) + 1
       IN  logfs' = [logfs EXCEPT !.path = inode,
                                  !.files = (inode :> <<>>) @@ @,
                                  !.changes = @ + 1]
    /\ tailed' = [tailed EXCEPT !.rotated = @ \/ watcher.inode # NoInode]
    /\ UNCHANGED watcher
    /\ UNCHANGED multiVars
    /\ UNCHANGED <<engineVars, whoisVars, concVars, otherVars>>

\* rotation by copy and truncate: the file at log_path is cut to nothing
Truncate ==
    /\ logfs.path # NoInode
    /\ logfs.changes < MaxChanges
    /\ Size(logfs) > 0
    /\ logfs' = [logfs EXCEPT !.files[logfs.path] = <<>>, !.changes = @ + 1]
    /\ tailed' = [tailed EXCEPT !.rotated = @ \/ (watcher.inode # NoInode
                                                    /\ watcher.position > 0)]
    /\ UNCHANGED watcher
    /\ UNCHANGED multiVars
    /\ UNCHANGED <<engineVars, whoisVars, concVars, otherVars>>

\* the server creates the file at log_path, which did not exist
CreateLog ==
    /\ logfs.path = NoInode
    /\ LET inode == Cardinality(DOMAIN logfs.files) + 1
       IN  logfs' = [logfs EXCEPT !.path = inode, !.files = (inode :> <<>>) @@ @]
    /\ UNCHANGED <<watcher, tailed>>
    /\ UNCHANGED multiVars
    /\ UNCHANGED <<engineVars, whoisVars, concVars, otherVars>>

\* LogWatcher(log_path, max_entries_per_ip) on a path where no file exists yet
InitMissing(caps) ==
    /\ logfs = [path |-> NoInode, files |-> <<>>, written |-> 0, changes |-> 0]
    /\ \E cap \in caps :
          watcher = [file |-> NoInode, inode |-> NoInode, position |-> 0, offset |-> 0,
                     first_open |-> TRUE, ip_buffers |-> <<>>,
                     max_entries_per_ip |-> cap]
    /\ tailed = [polls |-> 0, entries |-> <<>>, raised |-> FALSE, returned |-> <<>>,
                 start |-> 0, rotated |-> FALSE]

\* LogWatcher(log_path, max_entries_per_ip) on a log that exists with this content
InitTail(contents, caps) ==
    /\ \E content \in contents :
          logfs = [path |-> 1, files |-> (1 :> content), written |-> 0, changes |-> 0]
    /\ \E cap \in caps :
          watcher = [file |-> NoInode, inode |-> NoInode, position |-> 0, offset |-> 0,
                     first_open |-> TRUE, ip_buffers |-> <<>>,
                     max_entries_per_ip |-> cap]
    /\ tailed = [polls |-> 0, entries |-> <<>>, raised |-> FALSE, returned |-> <<>>,
                 start |-> 0, rotated |-> FALSE]

\* LogWatcher(p, max_entries_per_ip): a watcher that has not polled yet
NewWatcher(cap) ==
    [file |-> NoInode, inode |-> NoInode, position |-> 0, offset |-> 0,
     first_open |-> TRUE, ip_buffers |-> <<>>, max_entries_per_ip |-> cap]

\* the paths the glob pattern can match, in sorted order
PathOrder == <<"site1.access.log", "site2.access.log">>
Paths == {PathOrder[i] : i \in DOMAIN PathOrder}

\* the timestamps that log lines carry
Timestamps == {1, 2}

\* a line of a log with the timestamp its entry gets
StampedLine(serial, kind, ip, ts) ==
    [serial |-> serial, kind |-> kind, ip |-> ip, timestamp |-> ts]

\* sorted(glob.glob(pattern))
Globbed(fss) == SelectSeq(PathOrder, LAMBDA p : fss[p].path # NoInode)

\* _rescan(): a watcher is created for every matching path that has none
RescanResult(m, fss) ==
    LET new == SelectSeq(Globbed(fss), LAMBDA p : p \notin DOMAIN m.watchers)
    IN  [m EXCEPT !.watchers = @ @@ [p \in {new[i] : i \in DOMAIN new} |->
                                          NewWatcher(m.max_entries_per_ip)],
                  !.order = @ \o new]

\* all_entries.sort(key=lambda e: e.timestamp): e put after the entries not later
InsertByTs(sorted, e) ==
    LET k == Cardinality({i \in DOMAIN sorted : sorted[i].timestamp <= e.timestamp})
    IN  SubSeq(sorted, 1, k) \o <<e>> \o SubSeq(sorted, k + 1, Len(sorted))

\* the stable sort of entries by timestamp
RECURSIVE SortByTs(_)
SortByTs(entries) ==
    IF entries = <<>> THEN <<>>
    ELSE InsertByTs(SortByTs(SubSeq(entries, 1, Len(entries) - 1)),
                    entries[Len(entries)])

\* poll(), the first loop: the children are polled in dict order; a child that
\* raises ends the call, the children after it are not polled
RECURSIVE PollChildren(_, _, _, _)
PollChildren(ws, order, fss, all_entries) ==
    IF order = <<>>
    THEN [watchers |-> ws, entries |-> all_entries, raised |-> FALSE]
    ELSE LET p == Head(order)
             r == PollResult(ws[p], fss[p])
             w == [ws EXCEPT ![p] = r.watcher]
         IN  IF r.raised
             THEN [watchers |-> w, entries |-> all_entries, raised |-> TRUE]
             ELSE PollChildren(w, Tail(order), fss, all_entries \o r.entries)

\* poll(), the second loop for one ip: the children's buffers are appended in dict
\* order and the merged buffer is cut to the cap after each
RECURSIVE MergedBuffer(_, _, _, _, _)
MergedBuffer(ws, order, ip, cap, buf) ==
    IF order = <<>> THEN buf
    ELSE LET child == ws[Head(order)].ip_buffers
             ext   == IF ip \in DOMAIN child THEN buf \o child[ip] ELSE buf
             cut   == IF Len(ext) > cap THEN LastN(ext, cap) ELSE ext
         IN  MergedBuffer(ws, Tail(order), ip, cap, cut)

\* the ips that some child has a buffer for
BufferedIps(ws) == UNION {DOMAIN ws[p].ip_buffers : p \in DOMAIN ws}

\* MultiLogWatcher.poll() run from start to end
MultiPollResult(m, fss) ==
    LET c == PollChildren(m.watchers, m.order, fss, <<>>)
    IN  IF c.raised
        THEN [multi |-> [m EXCEPT !.watchers = c.watchers],
              entries |-> <<>>, raised |-> TRUE, children |-> c.entries]
        ELSE [multi |-> [m EXCEPT
                  !.watchers = c.watchers,
                  !.ip_buffers = [ip \in BufferedIps(c.watchers) |->
                      MergedBuffer(c.watchers, m.order, ip, m.max_entries_per_ip, <<>>)]],
              entries |-> SortByTs(c.entries), raised |-> FALSE,
              children |-> c.entries]

\* the lines written to the logs so far
Written(fss) == fss[PathOrder[1]].written + fss[PathOrder[2]].written

\* rescan() is called
MultiRescan ==
    /\ multi' = RescanResult(multi, globfs)
    /\ multi' # multi
    /\ UNCHANGED <<globfs, mpolled>>
    /\ UNCHANGED <<logfs, watcher, tailed>>
    /\ UNCHANGED <<engineVars, whoisVars, concVars, otherVars>>

\* MultiLogWatcher.poll() is called
MultiPoll ==
    /\ mpolled.polls < MaxPolls
    /\ LET r == MultiPollResult(multi, globfs)
       IN  /\ multi' = r.multi
           /\ mpolled' = [polls |-> mpolled.polls + 1, entries |-> r.entries,
                          raised |-> r.raised, children |-> r.children]
    /\ UNCHANGED globfs
    /\ UNCHANGED <<logfs, watcher, tailed>>
    /\ UNCHANGED <<engineVars, whoisVars, concVars, otherVars>>

\* a server appends one complete line to the log at path p
MultiAppend(p, kind, ip, ts) ==
    /\ globfs[p].path # NoInode
    /\ Written(globfs) < MaxAppends
    /\ globfs' = [globfs EXCEPT
                     ![p].written = @ + 1,
                     ![p].files[globfs[p].path] =
                         Append(@, StampedLine(Written(globfs) + 1, kind, ip, ts))]
    /\ UNCHANGED <<multi, mpolled>>
    /\ UNCHANGED <<logfs, watcher, tailed>>
    /\ UNCHANGED <<engineVars, whoisVars, concVars, otherVars>>

\* a new, empty log appears at path p (a vhost is added)
MultiCreate(p) ==
    /\ globfs[p].path = NoInode
    /\ globfs[p].changes < MaxChanges
    /\ LET inode == Cardinality(DOMAIN globfs[p].files) + 1
       IN  globfs' = [globfs EXCEPT ![p].path = inode,
                                    ![p].files = (inode :> <<>>) @@ @,
                                    ![p].changes = @ + 1]
    /\ UNCHANGED <<multi, mpolled>>
    /\ UNCHANGED <<logfs, watcher, tailed>>
    /\ UNCHANGED <<engineVars, whoisVars, concVars, otherVars>>

\* the log at path p is deleted (a vhost is removed)
MultiUnlink(p) ==
    /\ globfs[p].path # NoInode
    /\ globfs[p].changes < MaxChanges
    /\ globfs' = [globfs EXCEPT ![p].path = NoInode, ![p].changes = @ + 1]
    /\ UNCHANGED <<multi, mpolled>>
    /\ UNCHANGED <<logfs, watcher, tailed>>
    /\ UNCHANGED <<engineVars, whoisVars, concVars, otherVars>>

\* the file system at a path: an empty log, or nothing
EmptyLog == [path |-> 1, files |-> (1 :> <<>>), written |-> 0, changes |-> 0]
NoLog == [path |-> NoInode, files |-> <<>>, written |-> 0, changes |-> 0]

\* MultiLogWatcher(pattern, max_entries_per_ip) when the paths in existing are logs
InitMulti(existing, caps) ==
    /\ \E ps \in existing :
          globfs = [p \in Paths |-> IF p \in ps THEN EmptyLog ELSE NoLog]
    /\ \E cap \in caps :
          multi = RescanResult([watchers |-> <<>>, order |-> <<>>, ip_buffers |-> <<>>,
                                max_entries_per_ip |-> cap], globfs)
    /\ mpolled = [polls |-> 0, entries |-> <<>>, raised |-> FALSE, children |-> <<>>]

\* the multi watcher as the other specifications see it: nothing matches the pattern
InitMultiUnused == InitMulti({{}}, {DefaultMaxEntries})

\* the watcher as the other specifications see it: constructed, never polled
InitTailUnused == InitTail({<<>>}, {DefaultMaxEntries}) /\ InitMultiUnused

(***************************************************************************)
(* The JSON grammar of the log parser (collectors/logs.py _parse_json_line) *)
(*                                                                         *)
(* A Python string is modelled as the sequence of its characters, a JSON   *)
(* value as a record of its type and its characters (a number's decimal    *)
(* digits), so that rsplit and isdigit are computed on the characters.     *)
(***************************************************************************)
Digits == {"0", "1", "2", "3", "4", "5", "6", "7", "8", "9"}

JNull == [type |-> "null", chars |-> <<>>]
JStr(s) == [type |-> "str", chars |-> s]
JNum(s) == [type |-> "num", chars |-> s]

\* Python truthiness of a JSON value: None, "" and 0 are falsy
Truthy(v) ==
    /\ v.type # "null"
    /\ v.chars # <<>>
    /\ v.type = "num" => v.chars # <<"0">>

\* Python's "a or b"
Or(a, b) == IF Truthy(a) THEN a ELSE b

\* str.isdigit(): a non-empty string of digits
IsDigit(s) == s # <<>> /\ \A i \in DOMAIN s : s[i] \in Digits

HasColon(s) == \E i \in DOMAIN s : s[i] = ":"

\* s.rsplit(":", 1) of a string that holds a colon: the parts around the last one
RSplit(s) ==
    LET k == CHOOSE i \in DOMAIN s : s[i] = ":" /\ \A j \in DOMAIN s : s[j] = ":" => j <= i
    IN  <<SubSeq(s, 1, k - 1), SubSeq(s, k + 1, Len(s))>>

\* logs.py 298-303
StripPort(remote_ip) ==
    IF HasColon(remote_ip)
    THEN LET parts == RSplit(remote_ip)
         IN  IF IsDigit(parts[2]) THEN parts[1] ELSE remote_ip
    ELSE remote_ip

NoRequest == [type |-> "missing", remote_ip |-> JNull, remote_addr |-> JNull]
RequestObject(ip, addr) == [type |-> "obj", remote_ip |-> ip, remote_addr |-> addr]
\* "request": "GET / HTTP/1.1", a request that is a string and not an object
RequestString == [type |-> "str", remote_ip |-> JNull, remote_addr |-> JNull]

\* data.get("request", {})
RequestOf(data) == IF data.request.type = "missing" THEN RequestObject(JNull, JNull) ELSE data.request

NoEntry == [outcome |-> "none", remote_ip |-> <<>>, status_code |-> <<>>, bytes_sent |-> <<>>]
Raised(exception) == [outcome |-> exception, remote_ip |-> <<>>, status_code |-> <<>>, bytes_sent |-> <<>>]
Unparsed == [outcome |-> "unparsed", remote_ip |-> <<>>, status_code |-> <<>>, bytes_sent |-> <<>>]

\* int(v) is defined for a number and for a string of digits
IntDefined(v) == v.type = "num" \/ IsDigit(v.chars)

\* _parse_json_line applied to the object json.loads returned
ParseJsonLine(data) ==
    IF RequestOf(data).type # "obj"
    THEN Raised("AttributeError")
    ELSE
    LET request == RequestOf(data)
        remote_ip == Or(Or(Or(request.remote_ip, request.remote_addr), data.remote_ip),
                        data.remote_addr)
        status == Or(data.status, JNum(<<"0">>))
        size == Or(data.size, JNum(<<"0">>))
    IN  IF ~Truthy(remote_ip) THEN NoEntry
        ELSE IF remote_ip.type # "str" THEN Raised("TypeError")
        ELSE IF ~IntDefined(status) \/ ~IntDefined(size) THEN Raised("ValueError")
        ELSE [outcome |-> "entry", remote_ip |-> StripPort(remote_ip.chars),
              status_code |-> status.chars, bytes_sent |-> size.chars]

ParseJson ==
    /\ parsed.result = Unparsed
    /\ parsed' = [parsed EXCEPT !.result = ParseJsonLine(parsed.data)]
    /\ UNCHANGED <<engineVars, whoisVars, concVars, tailVars, connVars, filterVars>>

Ipv4 == <<"1", ".", "2", ".", "3", ".", "4">>
Port == <<":", "1", "2", "3", "4", "5">>
Loopback6 == <<":", ":", "1">>
Doc6 == <<"2", "0", "0", "1", ":", "d", "b", "8", ":", ":", "1">>
LinkLocal6 == <<"f", "e", "8", "0", ":", ":", "a">>
Bracketed6 == <<"[", ":", ":", "1", "]">>

Addresses ==
    {JNull, JStr(<<>>), JStr(Ipv4), JStr(Ipv4 \o Port), JStr(Loopback6), JStr(Doc6),
     JStr(LinkLocal6), JStr(Bracketed6 \o Port)}

Requests ==
    {NoRequest, RequestString} \cup {RequestObject(ip, addr) : ip, addr \in Addresses}

Statuses == {JNull, JNum(<<"2", "0", "0">>), JStr(<<"2", "0", "0">>), JStr(<<"a", "b", "c">>)}
Sizes == {JNull, JStr(<<"a", "b", "c">>)}

JsonObjects ==
    [request : Requests, remote_ip : Addresses \cup {JNum(<<"5">>)}, remote_addr : Addresses,
     status : Statuses, size : Sizes]

(***************************************************************************)
(* The connection collector (collectors/connections.py get_connections)    *)
(*                                                                         *)
(* A table file is the sequence of its lines, the header first.  A line is *)
(* the record of the whitespace-separated fields the parser looks at: how  *)
(* many there are, the hex address of each end, the hex state code and the *)
(* inode; ports are well-formed hex in every line.  An address is the      *)
(* sequence of its bytes (4 or 16), which its text form names uniquely.    *)
(***************************************************************************)
HexDigits ==
    [c \in {"0", "1", "2", "3", "4", "5", "6", "7", "8", "9",
            "A", "B", "C", "D", "E", "F"} |->
        CASE c = "0" -> 0 [] c = "1" -> 1 [] c = "2" -> 2 [] c = "3" -> 3
          [] c = "4" -> 4 [] c = "5" -> 5 [] c = "6" -> 6 [] c = "7" -> 7
          [] c = "8" -> 8 [] c = "9" -> 9 [] c = "A" -> 10 [] c = "B" -> 11
          [] c = "C" -> 12 [] c = "D" -> 13 [] c = "E" -> 14 [] c = "F" -> 15]

\* int(hex_str, 16) is defined: a non-empty string of hex digits
IsHex(s) == s # <<>> /\ \A i \in DOMAIN s : s[i] \in DOMAIN HexDigits

\* the hex string as 8 digits: int(hex_str, 16) of a string of at most 8 digits
Padded(s) == [i \in 1..8 |-> IF i <= 8 - Len(s) THEN "0" ELSE s[i - (8 - Len(s))]]

\* int(hex_str, 16) does not fit the 32 bits struct.pack("<I", ...) takes
Over32(s) == Len(s) > 8 /\ \E i \in 1..(Len(s) - 8) : s[i] # "0"

\* the byte two hex digits write
Byte(high, low) == 16 * HexDigits[high] + HexDigits[low]

\* the four bytes of a word of 8 hex digits, the lowest first
Bytes(d) == <<Byte(d[7], d[8]), Byte(d[5], d[6]), Byte(d[3], d[4]), Byte(d[1], d[2])>>

\* struct.pack("<I", int(w, 16)) of a value that fits 32 bits
PackWord(w) == Bytes(Padded(IF Len(w) > 8 THEN SubSeq(w, Len(w) - 7, Len(w)) ELSE w))

Parsed(addr) == [error |-> "none", addr |-> addr]
Failed(exception) == [error |-> exception, addr |-> <<>>]

\* utils.py parse_hex_ipv4
parse_hex_ipv4(hex_str) ==
    IF ~IsHex(hex_str) THEN Failed("ValueError")
    ELSE IF Over32(hex_str) THEN Failed("struct.error")
    ELSE Parsed(PackWord(hex_str))

\* hex_str[i : i + 8] for i in range(0, 32, 8): a slice ends where the string ends
Words(hex_str) ==
    [k \in 1..4 |-> IF 8 * (k - 1) >= Len(hex_str) THEN <<>>
                    ELSE SubSeq(hex_str, 8 * k - 7,
                                IF 8 * k <= Len(hex_str) THEN 8 * k ELSE Len(hex_str))]

\* utils.py 25-27: the words packed and joined
PackWords(words) ==
    IF \E k \in 1..4 : ~IsHex(words[k]) THEN Failed("ValueError")
    ELSE Parsed(PackWord(words[1]) \o PackWord(words[2])
                    \o PackWord(words[3]) \o PackWord(words[4]))

\* utils.py parse_hex_ipv6
parse_hex_ipv6(hex_str) == PackWords(Words(hex_str))

LISTEN == 10            \* models.py TCPState.LISTEN
LastState == 11         \* models.py TCPState.CLOSING, the last member of the enum

\* TCPState(value): the member of the enum, or ValueError; 0 is no member
Member(value) == IF value \in 1..LastState THEN value ELSE 0

\* models.py TCPState.from_hex
from_hex(hex_str) ==
    IF ~IsHex(hex_str) \/ Len(hex_str) > 2 THEN 0
    ELSE Member(Bytes(Padded(hex_str))[1])

MinFields == 10         \* connections.py 66: a line of fewer fields is no connection

NoConnection == [outcome |-> "none", local_ip |-> <<>>, remote_ip |-> <<>>, state |-> 0,
                 inode |-> 0, pid |-> 0]

\* connections.py 74-81: the connection of the parsed fields, or what was raised
Fields(local, remote, state, inode) ==
    IF local.error = "ValueError" THEN NoConnection
    ELSE IF local.error # "none" THEN [NoConnection EXCEPT !.outcome = local.error]
    ELSE IF remote.error = "ValueError" THEN NoConnection
    ELSE IF remote.error # "none" THEN [NoConnection EXCEPT !.outcome = remote.error]
    ELSE IF state = 0 THEN NoConnection
    ELSE [outcome |-> "connection", local_ip |-> local.addr, remote_ip |-> remote.addr,
          state |-> state, inode |-> inode, pid |-> 0]

\* _parse_tcp4_line and _parse_tcp6_line, which differ in the address parser only
ParseTcpLine(table, line) ==
    IF line.count < MinFields THEN NoConnection
    ELSE IF table = "tcp"
    THEN Fields(parse_hex_ipv4(line.local), parse_hex_ipv4(line.remote), from_hex(line.st),
                line.inode)
    ELSE Fields(parse_hex_ipv6(line.local), parse_hex_ipv6(line.remote), from_hex(line.st),
                line.inode)

parse_tcp4_line(line) == ParseTcpLine("tcp", line)
parse_tcp6_line(line) == ParseTcpLine("tcp6", line)

Zeros(n) == [i \in 1..n |-> 0]

\* the four addresses get_connections drops by name: 127.0.0.1, ::1, 0.0.0.0, ::
Skipped == {<<127, 0, 0, 1>>, Zeros(15) \o <<1>>, Zeros(4), Zeros(16)}

\* ipaddress: is_loopback
is_loopback(a) == IF Len(a) = 4 THEN a[1] = 127 ELSE a = Zeros(15) \o <<1>>

\* ipaddress: is_link_local (169.254.0.0/16, fe80::/10)
is_link_local(a) ==
    IF Len(a) = 4 THEN a[1] = 169 /\ a[2] = 254
    ELSE a[1] = 254 /\ a[2] \in 128..191

\* ipaddress: is_reserved (240.0.0.0/4; of the IPv6 reserved blocks, ::/8)
is_reserved(a) == IF Len(a) = 4 THEN a[1] >= 240 ELSE a[1] = 0

\* ipaddress: is_private, the blocks of the special-purpose registries the sample
\* addresses fall in (0/8, 10/8, 127/8, 169.254/16, 172.16/12, 192.168/16, 240/4;
\* ::1, ::, ::ffff:0:0/96, 2001:db8::/32, fc00::/7, fe80::/10)
is_private(a) ==
    IF Len(a) = 4
    THEN \/ a[1] \in {0, 10, 127}
         \/ a[1] = 169 /\ a[2] = 254
         \/ a[1] = 172 /\ a[2] \in 16..31
         \/ a[1] = 192 /\ a[2] = 168
         \/ a[1] >= 240
    ELSE \/ a \in {Zeros(15) \o <<1>>, Zeros(16)}
         \/ SubSeq(a, 1, 12) = Zeros(10) \o <<255, 255>>
         \/ SubSeq(a, 1, 4) = <<32, 1, 13, 184>>
         \/ a[1] \in {252, 253}
         \/ a[1] = 254 /\ a[2] \in 128..191

\* utils.py is_private_ip, on the bytes of the address
is_private_address(a) == is_private(a) \/ is_loopback(a) \/ is_reserved(a) \/ is_link_local(a)

\* mutant: listening sockets pass the filter
Kept_Listening(conn, include_private) ==
    /\ conn.remote_ip \notin Skipped
    /\ include_private \/ ~is_private_address(conn.remote_ip)

\* connections.py 44-52: the three tests a parsed connection passes to be returned
Kept(conn, include_private) ==
    /\ conn.state # LISTEN
    /\ conn.remote_ip \notin Skipped
    /\ include_private \/ ~is_private_address(conn.remote_ip)

\* connections.py 44-57: the list with the connection appended, if it is kept
WithConnection(connections, conn, include_private, pids) ==
    IF Kept(conn, include_private)
    THEN Append(connections,
                [conn EXCEPT !.pid = IF conn.inode \in DOMAIN pids THEN pids[conn.inode] ELSE 0])
    ELSE connections

\* connections.py 40-57: the connections of the lines after the header, up to the
\* first line on which the parser raises
RECURSIVE Collected(_, _, _, _, _)
CollectedLine(table, conn, rest, include_private, pids, connections) ==
    IF conn.outcome \notin {"none", "connection"}
    THEN [raised |-> TRUE, connections |-> <<>>]
    ELSE Collected(table, rest, include_private, pids,
                   IF conn.outcome = "none" THEN connections
                   ELSE WithConnection(connections, conn, include_private, pids))

Collected(table, lines, include_private, pids, connections) ==
    IF lines = <<>> THEN [raised |-> FALSE, connections |-> connections]
    ELSE CollectedLine(table, ParseTcpLine(table, Head(lines)), Tail(lines),
                       include_private, pids, connections)

\* filepath.read_text().splitlines()[1:] of a file that exists and can be read
Rows(file) == IF file.status = "readable" /\ file.lines # <<>> THEN Tail(file.lines) ELSE <<>>

\* get_connections(include_private, proc_path)
Tcp6After(tcp, include_private, fs) ==
    IF tcp.raised THEN tcp
    ELSE Collected("tcp6", Rows(fs.tcp6), include_private, fs.pids, tcp.connections)

get_connections(include_private, fs) ==
    Tcp6After(Collected("tcp", Rows(fs.tcp), include_private, fs.pids, <<>>),
              include_private, fs)

connFrame == <<engineVars, whoisVars, concVars, tailVars, parseVars, filterVars>>

\* the collector is polled
PollConnections(include_private) ==
    /\ collected' = [polled |-> TRUE, include_private |-> include_private,
                     result |-> get_connections(include_private, proc)]
    /\ UNCHANGED proc
    /\ UNCHANGED connFrame

MaxRows == 2            \* bound: the lines of the two tables together, headers aside

TableRows == (Len(proc.tcp.lines) - 1) + (Len(proc.tcp6.lines) - 1)

\* the kernel lists one more socket in a table
AddRow(table, line) ==
    /\ TableRows < MaxRows
    /\ proc[table].status # "missing"
    /\ proc' = [proc EXCEPT ![table].lines = Append(@, line)]
    /\ UNCHANGED collected
    /\ UNCHANGED connFrame

Header == [count |-> 12, local |-> <<>>, remote |-> <<>>, st |-> <<>>, inode |-> 0]
Row(remote, st) ==
    [count |-> 17, local |-> <<"0", "1", "0", "0", "0", "0", "7", "F">>, remote |-> remote,
     st |-> st, inode |-> 12345]
Row6(remote, st) == [Row(remote, st) EXCEPT !.local = [i \in 1..32 |-> "0"]]

Public4 == <<"0", "8", "0", "8", "0", "8", "0", "8">>           \* 8.8.8.8
Localhost4 == <<"0", "1", "0", "0", "0", "0", "7", "F">>        \* 127.0.0.1
Resolver4 == <<"3", "5", "0", "0", "0", "0", "7", "F">>         \* 127.0.0.53
Any4 == <<"0", "0", "0", "0", "0", "0", "0", "0">>              \* 0.0.0.0
Lan4 == <<"0", "1", "0", "1", "A", "8", "C", "0">>              \* 192.168.1.1
NonHex4 == <<"0", "8", "0", "8", "0", "8", "0", "G">>
OverLong4 == <<"1">> \o Public4

Word(a, b) == <<a[1], a[2], a[3], a[4], b[1], b[2], b[3], b[4]>>
Zero4 == <<"0", "0", "0", "0">>
Public6 == Word(<<"0", "0", "4", "7">>, <<"0", "6", "2", "6">>) \o Word(Zero4, Zero4)
               \o Word(Zero4, Zero4) \o Word(<<"0", "1", "0", "0">>, Zero4)   \* 2606:4700::1
Localhost6 == Word(Zero4, Zero4) \o Word(Zero4, Zero4) \o Word(Zero4, Zero4)
                  \o Word(<<"0", "1", "0", "0">>, Zero4)                       \* ::1
Any6 == Word(Zero4, Zero4) \o Word(Zero4, Zero4) \o Word(Zero4, Zero4)
            \o Word(Zero4, Zero4)                                              \* ::
LinkLocal6Hex == Word(Zero4, <<"8", "0", "F", "E">>) \o Word(Zero4, Zero4)
                     \o Word(Zero4, Zero4) \o Word(<<"0", "1", "0", "0">>, Zero4) \* fe80::1

Established == <<"0", "1">>
Listening == <<"0", "A">>
UnknownState == <<"0", "C">>

Rows4 ==
    {Row(remote, st) : remote \in {Public4, Localhost4, Resolver4, Any4, Lan4},
                       st \in {Established, Listening}}
        \cup {Row(NonHex4, Established), Row(OverLong4, Established),
              Row(Public4, UnknownState), [Row(Public4, Established) EXCEPT !.count = 3]}

Rows6 ==
    {Row6(remote, Established) : remote \in {Public6, Localhost6, Any6, LinkLocal6Hex}}
        \cup {Row6(Public6, Listening), Row6(SubSeq(Public6, 1, 31) \o <<"G">>, Established)}

Pids == [inode \in {12345} |-> 4321]
NoPids == [inode \in {} |-> 0]

InitProc(statuses, pidmaps) ==
    /\ \E s4, s6 \in statuses, pids \in pidmaps :
          proc = [tcp |-> [status |-> s4, lines |-> <<Header>>],
                  tcp6 |-> [status |-> s6, lines |-> <<Header>>],
                  pids |-> pids]
    /\ collected = [polled |-> FALSE, include_private |-> FALSE,
                    result |-> [raised |-> FALSE, connections |-> <<>>]]

InitConnUnused == InitProc({"missing"}, {NoPids})

(***************************************************************************)
(* The filter state (filters.py FilterState) and the dashboard's handlers  *)
(* that change it (screens/dashboard.py, screens/filter_screen.py)         *)
(*                                                                         *)
(* An optional field is the empty sequence for None and <<v>> for a value. *)
(* A network is the bytes of its prefix (whole bytes: /8, /16, /24, /32).  *)
(***************************************************************************)
Absent == <<>>
Some(v) == <<v>>

UpperCase == <<"A", "B", "C", "D", "E", "F", "G", "H", "I", "J", "K", "L", "M", "N", "O", "P", "Q", "R", "S", "T", "U", "V", "W", "X", "Y", "Z">>
LowerCase == <<"a", "b", "c", "d", "e", "f", "g", "h", "i", "j", "k", "l", "m", "n", "o", "p", "q", "r", "s", "t", "u", "v", "w", "x", "y", "z">>

\* str.lower(), on the ASCII letters
Lower(t) ==
    [i \in DOMAIN t |->
        IF \E k \in DOMAIN UpperCase : UpperCase[k] = t[i]
        THEN LowerCase[CHOOSE k \in DOMAIN UpperCase : UpperCase[k] = t[i]]
        ELSE t[i]]

\* p in t, for strings
Contains(t, p) == \E i \in 0..(Len(t) - Len(p)) : SubSeq(t, i + 1, i + Len(p)) = p

\* filters.py 10-24
SCANNER_PATTERNS ==
    <<<<"z", "g", "r", "a", "b">>,
     <<"m", "a", "s", "s", "c", "a", "n">>,
     <<"n", "m", "a", "p">>,
     <<"n", "i", "k", "t", "o">>,
     <<"s", "q", "l", "m", "a", "p">>,
     <<"g", "o", "b", "u", "s", "t", "e", "r">>,
     <<"d", "i", "r", "b", "u", "s", "t", "e", "r">>,
     <<"w", "f", "u", "z", "z">>,
     <<"n", "u", "c", "l", "e", "i">>,
     <<"h", "t", "t", "p", "x">>,
     <<"c", "e", "n", "s", "y", "s">>,
     <<"s", "h", "o", "d", "a", "n">>>>

\* filters.py 233-236
has_any_scanner_ua(user_agent, extra) ==
    LET ua_lower == Lower(user_agent)
        patterns == SCANNER_PATTERNS \o [i \in DOMAIN extra |-> Lower(extra[i])]
    IN  \E i \in DOMAIN patterns : Contains(ua_lower, patterns[i])

ESTABLISHED == 1        \* models.py TCPState.ESTABLISHED
SYN_RECV == 3           \* models.py TCPState.SYN_RECV

\* mutant: the scanner clause looks at the oldest log entry of the profile
is_suspicious_FirstEntry(f, profile) ==
    \/ /\ profile.total_requests = 0
       /\ \E i \in DOMAIN profile.connections : profile.connections[i] = SYN_RECV
    \/ /\ Len(profile.connections) >= f.suspicious_min_conns
       /\ profile.total_requests <= 1
    \/ profile.request_rate_per_min > f.suspicious_burst_rpm
    \/ /\ profile.log_entries # <<>>
       /\ LET ua == profile.log_entries[1]
          IN  ua # <<>> /\ has_any_scanner_ua(ua, f.extra_scanner_patterns)

\* filters.py 188-209 FilterState._is_suspicious; a log entry is its user agent
is_suspicious(f, profile) ==
    IF /\ profile.total_requests = 0
       /\ \E i \in DOMAIN profile.connections : profile.connections[i] = SYN_RECV
    THEN TRUE
    ELSE IF /\ Len(profile.connections) >= f.suspicious_min_conns
            /\ profile.total_requests <= 1
    THEN TRUE
    ELSE IF profile.request_rate_per_min > f.suspicious_burst_rpm
    THEN TRUE
    ELSE IF profile.log_entries # <<>>
    THEN LET ua == profile.log_entries[Len(profile.log_entries)]
         IN  ua # <<>> /\ has_any_scanner_ua(ua, f.extra_scanner_patterns)
    ELSE FALSE

\* filters.py 33-42: the address lies in one of the networks
ip_in_networks(ip, networks) ==
    \E i \in DOMAIN networks :
        /\ Len(networks[i]) <= Len(ip)
        /\ SubSeq(ip, 1, Len(networks[i])) = networks[i]

DigitChars == <<"0", "1", "2", "3", "4", "5", "6", "7", "8", "9">>

\* str(n) of a byte
RECURSIVE Decimal(_)
Decimal(n) == IF n < 10 THEN <<DigitChars[n + 1]>>
              ELSE Decimal(n \div 10) \o <<DigitChars[(n % 10) + 1]>>

\* the text of an IPv4 address
Dotted(ip) ==
    Decimal(ip[1]) \o <<".">> \o Decimal(ip[2]) \o <<".">> \o Decimal(ip[3])
        \o <<".">> \o Decimal(ip[4])

\* mutant: a request rate equal to the minimum does not pass
matches_profile_StrictRate(f, profile) ==
    IF f.suspicious_mode THEN is_suspicious(f, profile)
    ELSE IF f.cidr_allow # <<>> /\ ~ip_in_networks(profile.ip, f.cidr_allow) THEN FALSE
    ELSE IF f.cidr_deny # <<>> /\ ip_in_networks(profile.ip, f.cidr_deny) THEN FALSE
    ELSE IF /\ f.tcp_states # Absent
            /\ {profile.connections[i] : i \in DOMAIN profile.connections}
                   \cap f.tcp_states[1] = {}
    THEN FALSE
    ELSE IF /\ f.min_request_rate # Absent
            /\ profile.request_rate_per_min <= f.min_request_rate[1]
    THEN FALSE
    ELSE IF /\ f.text_filter # Absent
            /\ ~Contains(Lower(Dotted(profile.ip) \o <<" ">> \o profile.as_org),
                         f.text_filter[1])
    THEN FALSE
    ELSE TRUE

\* filters.py 147-168 FilterState.matches_profile
matches_profile(f, profile) ==
    IF f.suspicious_mode THEN is_suspicious(f, profile)
    ELSE IF f.cidr_allow # <<>> /\ ~ip_in_networks(profile.ip, f.cidr_allow) THEN FALSE
    ELSE IF f.cidr_deny # <<>> /\ ip_in_networks(profile.ip, f.cidr_deny) THEN FALSE
    ELSE IF /\ f.tcp_states # Absent
            /\ {profile.connections[i] : i \in DOMAIN profile.connections}
                   \cap f.tcp_states[1] = {}
    THEN FALSE
    ELSE IF /\ f.min_request_rate # Absent
            /\ profile.request_rate_per_min < f.min_request_rate[1]
    THEN FALSE
    ELSE IF /\ f.text_filter # Absent
            /\ ~Contains(Lower(Dotted(profile.ip) \o <<" ">> \o profile.as_org),
                         f.text_filter[1])
    THEN FALSE
    ELSE TRUE

\* filters.py 137-147 FilterState.is_active
is_active(f) ==
    \/ f.tcp_states # Absent
    \/ f.status_codes # Absent
    \/ f.min_request_rate # Absent
    \/ f.cidr_allow # <<>>
    \/ f.cidr_deny # <<>>
    \/ f.text_filter # Absent
    \/ f.suspicious_mode

\* f"{entry.remote_ip} {entry.status_code} {entry.method} {entry.path}"
EntryText(entry) ==
    Dotted(entry.remote_ip) \o <<" ">> \o Decimal(entry.status_code) \o <<" ">>
        \o entry.method \o <<" ">> \o entry.path

\* filters.py 171-186 FilterState.matches_log_entry; a range is a pair (lo, hi)
matches_log_entry(f, entry) ==
    IF f.cidr_allow # <<>> /\ ~ip_in_networks(entry.remote_ip, f.cidr_allow) THEN FALSE
    ELSE IF f.cidr_deny # <<>> /\ ip_in_networks(entry.remote_ip, f.cidr_deny) THEN FALSE
    ELSE IF /\ f.status_codes # Absent
            /\ ~\E i \in DOMAIN f.status_codes[1] :
                    /\ f.status_codes[1][i][1] <= entry.status_code
                    /\ entry.status_code <= f.status_codes[1][i][2]
    THEN FALSE
    ELSE IF /\ f.text_filter # Absent
            /\ ~Contains(Lower(EntryText(entry)), f.text_filter[1])
    THEN FALSE
    ELSE TRUE

DefaultBurstRpm == 60   \* config.py suspicious_burst_rpm
DefaultMinConns == 5    \* config.py suspicious_min_conns

\* FilterState(...) with the fields not named left at their defaults
FilterState(cidr_allow, cidr_deny, burst_rpm, min_conns, extra) ==
    [tcp_states |-> Absent, status_codes |-> Absent, min_request_rate |-> Absent,
     cidr_allow |-> cidr_allow, cidr_deny |-> cidr_deny, text_filter |-> Absent,
     suspicious_mode |-> FALSE, suspicious_burst_rpm |-> burst_rpm,
     suspicious_min_conns |-> min_conns, extra_scanner_patterns |-> extra]

\* the filter state with the scoping fields and thresholds of f and nothing else set
Scoped(f) ==
    FilterState(f.cidr_allow, f.cidr_deny, f.suspicious_burst_rpm, f.suspicious_min_conns,
                f.extra_scanner_patterns)

\* mutant: switching off only clears the flag of the filter state in use
ToggleResult_FlagOnly(d) ==
    IF d.filters.suspicious_mode
    THEN [d EXCEPT !.filters.suspicious_mode = FALSE]
    ELSE [d EXCEPT !.pre_suspicious_filters = Some([d.filters EXCEPT !.suspicious_mode = FALSE]),
                   !.filters = [Scoped(d.filters) EXCEPT !.suspicious_mode = TRUE]]

\* dashboard.py 293-325 action_toggle_suspicious, on the dashboard's fields
ToggleResult(d) ==
    IF d.filters.suspicious_mode
    THEN IF d.pre_suspicious_filters # Absent
         THEN [d EXCEPT !.filters = d.pre_suspicious_filters[1],
                        !.pre_suspicious_filters = Absent]
         ELSE [d EXCEPT !.filters.suspicious_mode = FALSE]
    ELSE [d EXCEPT !.pre_suspicious_filters = Some([d.filters EXCEPT !.suspicious_mode = FALSE]),
                   !.filters = [Scoped(d.filters) EXCEPT !.suspicious_mode = TRUE]]

filterFrame == <<engineVars, whoisVars, concVars, tailVars, parseVars, connVars>>

\* "!" is pressed; toggled keeps the filter state the mode was last enabled from
ToggleSuspicious ==
    /\ dashboard' = ToggleResult(dashboard)
    /\ toggled' = IF dashboard.filters.suspicious_mode
                  THEN [toggled EXCEPT !.last = "off"]
                  ELSE [last |-> "on", from |-> dashboard.filters]
    /\ UNCHANGED matched
    /\ UNCHANGED filterFrame

\* dashboard.py 257-267 action_filter_log: "/" shows the input, or hides and clears it
FilterLog ==
    /\ dashboard' = IF dashboard.input_visible
                    THEN [dashboard EXCEPT !.input_visible = FALSE,
                                           !.filters.text_filter = Absent]
                    ELSE [dashboard EXCEPT !.input_visible = TRUE]
    /\ toggled' = [toggled EXCEPT !.last = "other"]
    /\ UNCHANGED matched
    /\ UNCHANGED filterFrame

\* dashboard.py 269-274 on_input_submitted: the text typed in the filter input
InputSubmitted(text) ==
    /\ dashboard.input_visible
    /\ dashboard' = [dashboard EXCEPT !.input_visible = FALSE,
                                      !.filters.text_filter =
                                          IF text # <<>> THEN Some(Lower(text)) ELSE Absent]
    /\ toggled' = [toggled EXCEPT !.last = "other"]
    /\ UNCHANGED matched
    /\ UNCHANGED filterFrame

\* filter_screen.py 141-158 _apply and dashboard.py 286-289 _on_dismiss: the filter
\* modal is opened on the current filter state and applied
ApplyFilters(tcp_states, status_codes, min_request_rate, text) ==
    /\ dashboard' = [dashboard EXCEPT !.filters =
                        [Scoped(dashboard.filters) EXCEPT
                            !.tcp_states = tcp_states, !.status_codes = status_codes,
                            !.min_request_rate = min_request_rate,
                            !.text_filter = IF text # <<>> THEN Some(Lower(text)) ELSE Absent]]
    /\ toggled' = [toggled EXCEPT !.last = "other"]
    /\ UNCHANGED matched
    /\ UNCHANGED filterFrame

\* filter_screen.py 125-134: the modal's clear button
ClearFilters ==
    /\ dashboard' = [dashboard EXCEPT !.filters = Scoped(dashboard.filters)]
    /\ toggled' = [toggled EXCEPT !.last = "other"]
    /\ UNCHANGED matched
    /\ UNCHANGED filterFrame

\* dashboard.py 200-201: the filter state in use is asked about a profile
MatchProfile ==
    /\ ~matched.asked
    /\ matched.kind = "profile"
    /\ matched' = [matched EXCEPT !.asked = TRUE,
                                  !.result = matches_profile(dashboard.filters, matched.profile)]
    /\ UNCHANGED <<dashboard, toggled>>
    /\ UNCHANGED filterFrame

\* dashboard.py 216-217: the filter state in use is asked about a log entry
MatchEntry ==
    /\ ~matched.asked
    /\ matched.kind = "entry"
    /\ matched' = [matched EXCEPT !.asked = TRUE,
                                  !.result = matches_log_entry(dashboard.filters, matched.entry)]
    /\ UNCHANGED <<dashboard, toggled>>
    /\ UNCHANGED filterFrame

Net10 == <<10>>                             \* 10.0.0.0/8
Net8_8 == <<8, 8>>                          \* 8.8.0.0/16
BotText == <<"B", "o", "t">>
EvilPattern == <<"E", "v", "i", "l">>       \* a configured scanner pattern

\* dashboard.py 46-54: the filter state built from the configuration
InitDashboard(allows, denies, bursts, conns, extras) ==
    /\ \E allow \in allows, deny \in denies, burst \in bursts, n \in conns, extra \in extras :
          dashboard = [filters |-> FilterState(allow, deny, burst, n, extra),
                       pre_suspicious_filters |-> Absent, input_visible |-> FALSE]
    /\ toggled = [last |-> "other", from |-> dashboard.filters]

NoProfile ==
    [ip |-> <<1, 2, 3, 4>>, as_org |-> <<"?">>, connections |-> <<>>, total_requests |-> 0,
     request_rate_per_min |-> 0, log_entries |-> <<>>]

GetChars == <<"G", "E", "T">>
NoShownEntry == [remote_ip |-> <<1, 2, 3, 4>>, status_code |-> 200, method |-> GetChars,
                 path |-> <<"/">>]

\* the row the dashboard is about to filter: a profile of the table, or an entry of the log
InitShown(given, entries) ==
    \/ \E p \in given :
          matched = [kind |-> "profile", profile |-> p, entry |-> NoShownEntry,
                     asked |-> FALSE, result |-> FALSE]
    \/ \E e \in entries :
          matched = [kind |-> "entry", profile |-> NoProfile, entry |-> e,
                     asked |-> FALSE, result |-> FALSE]

InitProfile(given) == InitShown(given, {})

InitFilterUnused ==
    /\ InitDashboard({<<>>}, {<<>>}, {DefaultBurstRpm}, {DefaultMinConns}, {<<>>})
    /\ InitProfile({NoProfile})

InitParse(objects) == \E data \in objects : parsed = [data |-> data, result |-> Unparsed]

InitParseUnused ==
    InitParse({[request |-> NoRequest, remote_ip |-> JNull, remote_addr |-> JNull,
                status |-> JNull, size |-> JNull]})

InitOtherUnused == InitParseUnused /\ InitConnUnused /\ InitFilterUnused

----------------------------------------------------------------------------
(* The engine, its handlers taken one at a time *)

InitEngine ==
    /\ heap = <<>>
    /\ profiles = <<>>
    /\ porder = <<>>
    /\ request_timestamps = <<>>
    /\ ip_request_timestamps = <<>>
    /\ new_conn_timestamps = <<>>
    /\ known_conn_ips = {}
    /\ now = 0
    /\ ret = <<>>

Init == InitEngine /\ InitWhoisUnused /\ InitConcUnused /\ InitTailUnused
        /\ InitOtherUnused

\* the engine under connection polls and single-line log polls, the clock standing still
Next ==
    \/ \E conns \in ConnBatches : UpdateConnections(conns)
    \/ \E entries \in LogBatches(now, {1024}, 1) : UpdateLogEntries(entries)
    \/ \E max_age_seconds \in MaxAges : TrimStaleProfiles(max_age_seconds)
    \/ GetProfiles(FALSE)

Spec == Init /\ [][Next]_vars

\* the engine with the enrichment updates
NextEnrich ==
    \/ \E conns \in SmallBatches : UpdateConnections(conns)
    \/ \E entries \in LogBatches(now, {1024}, 1) : UpdateLogEntries(entries)
    \/ \E ip \in IPs, geo \in GeoVals : UpdateGeo(ip, geo)
    \/ \E ip \in IPs, whois \in WhoisVals : UpdateWhois(ip, whois)
    \/ \E max_age_seconds \in MaxAges : TrimStaleProfiles(max_age_seconds)
    \/ GetProfiles(FALSE)

SpecEnrich == Init /\ [][NextEnrich]_vars

\* the engine under log polls of several lines
NextLog ==
    \/ \E conns \in SmallBatches : UpdateConnections(conns)
    \/ \E entries \in LogBatches(now, BytesVals, MaxLogBatch) : UpdateLogEntries(entries)
    \/ \E max_age_seconds \in MaxAges : TrimStaleProfiles(max_age_seconds)

SpecLog == Init /\ [][NextLog]_vars

\* the engine under the staleness sweep, the clock advancing by just over the max age
NextTrim ==
    \/ \E conns \in SmallBatches : UpdateConnections(conns)
    \/ \E entries \in LogBatches(now, {1024}, 1) : UpdateLogEntries(entries)
    \/ \E max_age_seconds \in MaxAges : TrimStaleProfiles(max_age_seconds)
    \/ Tick(DefaultMaxAge + 1)

SpecTrim == Init /\ [][NextTrim]_vars

\* the engine with consumers that keep what the read methods return
NextReads ==
    \/ \E conns \in SmallBatches : UpdateConnections(conns)
    \/ \E entries \in LogBatches(now, {1024}, 1) : UpdateLogEntries(entries)
    \/ \E ip \in IPs, geo \in GeoVals : UpdateGeo(ip, geo)
    \/ \E max_age_seconds \in MaxAges : TrimStaleProfiles(max_age_seconds)
    \/ GetProfiles(TRUE)
    \/ \E ip \in IPs : GetProfile(ip, TRUE)

SpecReads == Init /\ [][NextReads]_vars

\* the whois service alone: callers, executor threads, the clock, shutdown
\* the addresses looked up: one public, one private
WhoisIPs == {"1.2.3.4"} \cup PrivateIPs

InitW == InitEngine /\ InitWhois /\ InitConcUnused /\ InitTailUnused
         /\ InitOtherUnused

NextWhois ==
    \/ \E c \in 1..MaxCallers, ip \in WhoisIPs : LookupBegin(c, ip, "cb1")
    \/ \E c \in 1..MaxCallers : LookupSubmit(c)
    \/ \E c \in 1..MaxCallers, ip \in WhoisIPs : GetCached(c, ip)
    \/ WorkerStart
    \/ \E w \in 1..MaxWorkers, info \in LookupInfos : WorkerStore(w, info)
    \/ \E w \in 1..MaxWorkers : WorkerSave(w, TRUE)
    \/ \E w \in 1..MaxWorkers : WorkerCallback(w)
    \/ Shutdown
    \/ Tick(DefaultCacheTtl)

SpecWhois == InitW /\ [][NextWhois]_vars

\* a connection poll on one thread and the stats read on another
NextConc ==
    \/ \E conns \in SmallBatches : UpdBegin(conns)
    \/ UpdApply
    \/ UpdEnd
    \/ RdBegin
    \/ RdSum
    \/ RdEnd

SpecConc == Init /\ [][NextConc]_vars

----------------------------------------------------------------------------
(* Properties *)

\* the lookup tasks for ip that are queued, and those an executor thread is running
QueuedTasks(ip) == {i \in DOMAIN queue : queue[i].ip = ip}
RunningTasks(ip) == {w \in DOMAIN workers : workers[w].ip = ip}

\* lookup(ip, cb) takes its in-flight branch: no valid entry, ip marked
C1_InFlightBranch(c, ip) ==
    LookupBegin(c, ip, "cb1") /\ ~is_private_ip(ip) /\ ~Fresh(ip, now) /\ InFlight(ip)

\* C1: whatever the interleaving of lookup calls and worker completions, at most one
\* lookup task per IP is queued or running at any time, and a lookup call that finds
\* no valid cache entry while the IP is marked in-flight returns nothing and submits
\* no task.
C1_AtMostOneTaskPerIp ==
    /\ [](\A ip \in IPs : Cardinality(QueuedTasks(ip)) + Cardinality(RunningTasks(ip)) <= 1)
    /\ [][\A c \in 1..MaxCallers, ip \in WhoisIPs :
            C1_InFlightBranch(c, ip) =>
                /\ last'.result = None
                /\ queue' = queue
                /\ callers'[c] = IdleCaller]_vars

\* C2: when update_connections runs concurrently with a read method, every value the
\* read returns equals the value computed from the engine state entirely before or
\* entirely after that update, never from a mix of cleared and repopulated profiles.
C2_ReadSeesWholeUpdates == agg # NoStats => agg \in hist

\* what a returned profile shows of connections, log history, counters and enrichment
SnapshotFields(p) ==
    <<p.connections, p.log_entries, p.total_requests, p.total_bytes_sent, p.geo, p.whois>>

\* C3: the result of get_profiles() or get_profile(ip) is a snapshot as of the call: a
\* later update on the engine does not change the connection list, log history,
\* counters or enrichment fields of an already returned profile.
C3_ReturnedIsSnapshot ==
    [][ret' = ret =>
         \A i \in DOMAIN ret : SnapshotFields(heap'[ret[i]]) = SnapshotFields(heap[ret[i]])]_vars

ProfileOf(ip) == heap[profiles[ip]]

BatchIps(conns) == {conns[i].remote_ip : i \in DOMAIN conns}

\* C4: update_connections(batch) is a full replacement. Called in any reachable
\* state, it leaves every profile's connection list equal to the batch's
\* connections to that ip, in batch order (so a profile not mentioned has none),
\* every ip of the batch has a profile, and active_connections counts the
\* ESTABLISHED connections; the example batch gives 2 surfaced profiles, 1.2.3.4
\* with 2 connections, 1 active.
C4_Post(st, conns) ==
    /\ BatchIps(conns) \subseteq DOMAIN st.profiles
    /\ \A ip \in DOMAIN st.profiles :
          LET p == st.heap[st.profiles[ip]]
          IN  /\ p.connections = SelectSeq(conns, LAMBDA c : c.remote_ip = ip)
              /\ active_connections(p) =
                    Cardinality({i \in DOMAIN conns : conns[i] = Conn(ip, "ESTABLISHED")})
    /\ conns = ExampleBatch =>
          /\ Len(GetProfilesResult(st)) = 2
          /\ Len(st.heap[st.profiles["1.2.3.4"]].connections) = 2
          /\ active_connections(st.heap[st.profiles["1.2.3.4"]]) = 1

C4_FullReplacement ==
    \A conns \in ConnBatches :
        C4_Post(UpdateConnectionsResult(EngineState, conns, now), conns)

C4_Witness ==
    /\ DOMAIN profiles = IPs
    /\ ProfileOf("1.2.3.4").connections =
          <<Conn("1.2.3.4", "ESTABLISHED"), Conn("1.2.3.4", "TIME_WAIT")>>
    /\ ProfileOf("5.6.7.8").connections = <<Conn("5.6.7.8", "ESTABLISHED")>>
    /\ ProfileOf("5.6.7.8").total_requests > 0

\* C5: update_connections changes no profile's log history, cumulative request
\* count, cumulative bytes, geo or whois, nor the request-rate windows; with an
\* empty batch every profile stays present, with an empty connection list.
C5_Frame(conns) ==
    /\ request_timestamps' = request_timestamps
    /\ ip_request_timestamps' = ip_request_timestamps
    /\ \A ip \in DOMAIN profiles :
          /\ ip \in DOMAIN profiles'
          /\ ProfileOf(ip)'.log_entries = ProfileOf(ip).log_entries
          /\ ProfileOf(ip)'.total_requests = ProfileOf(ip).total_requests
          /\ ProfileOf(ip)'.total_bytes_sent = ProfileOf(ip).total_bytes_sent
          /\ ProfileOf(ip)'.geo = ProfileOf(ip).geo
          /\ ProfileOf(ip)'.whois = ProfileOf(ip).whois
          /\ conns = <<>> => ProfileOf(ip)'.connections = <<>>

C5_ConnectionsFrame ==
    [][\A conns \in SmallBatches : UpdateConnections(conns) => C5_Frame(conns)]_vars

\* a profile that has been in a batch, has no connection now, and has kept its
\* log history and enrichment
C5_Witness ==
    \E ip \in DOMAIN profiles :
        /\ ip \in known_conn_ips
        /\ ProfileOf(ip).connections = <<>>
        /\ ProfileOf(ip).log_entries # <<>>
        /\ ProfileOf(ip).total_requests = Len(ProfileOf(ip).log_entries)
        /\ ProfileOf(ip).geo # None
        /\ ProfileOf(ip).whois # None

RECURSIVE SumBytes(_)
SumBytes(entries) ==
    IF entries = <<>> THEN 0 ELSE Head(entries).bytes_sent + SumBytes(Tail(entries))

\* C6: update_log_entries(batch) is append-only. For each ip the history after
\* the call is the history before followed by the batch's entries of that ip in
\* batch order, total_requests grows by their number and total_bytes_sent by the
\* sum of their bytes_sent, and no connection list changes.
C6_Post(entries) ==
    \A ip \in IPs :
        LET mine == SelectSeq(entries, LAMBDA e : e.remote_ip = ip)
            old  == IF ip \in DOMAIN profiles THEN ProfileOf(ip) ELSE NewProfile(ip)
        IN  (ip \in DOMAIN profiles \/ mine # <<>>) =>
               /\ ip \in DOMAIN profiles'
               /\ ProfileOf(ip)'.log_entries = old.log_entries \o mine
               /\ ProfileOf(ip)'.total_requests = old.total_requests + Len(mine)
               /\ ProfileOf(ip)'.total_bytes_sent = old.total_bytes_sent + SumBytes(mine)
               /\ ProfileOf(ip)'.connections = old.connections

C6_AppendOnly ==
    [][\A entries \in LogBatches(now, BytesVals, MaxLogBatch) :
          UpdateLogEntries(entries) => C6_Post(entries)]_vars

\* a history of two different entries, counted, on a profile that has connections
C6_Witness ==
    \E ip \in DOMAIN profiles :
        /\ Len(ProfileOf(ip).log_entries) = 2
        /\ ProfileOf(ip).log_entries[1].bytes_sent = 1024
        /\ ProfileOf(ip).log_entries[2].bytes_sent = 0
        /\ ProfileOf(ip).total_requests = 2
        /\ ProfileOf(ip).total_bytes_sent = 1024
        /\ ProfileOf(ip).connections # <<>>

\* C7: the length of every profile's log history stays at or below a fixed
\* bound, the oldest entries being evicted first. Stated for the largest bound
\* the exploration can decide (histories are explored up to MaxLog entries).
LogHistoryCap == MaxLog - 1

C7_HistoryBounded ==
    \A ip \in DOMAIN profiles : Len(ProfileOf(ip).log_entries) <= LogHistoryCap

C9_Stale(ip, max_age_seconds) ==
    /\ Len(ProfileOf(ip).connections) = 0
    /\ \/ ProfileOf(ip).total_requests = 0
       \/ /\ ProfileOf(ip).last_seen # NoTime
          /\ now - ProfileOf(ip).last_seen > max_age_seconds

C9_Post(st, max_age_seconds) ==
    /\ DOMAIN st.profiles = {ip \in DOMAIN profiles : ~C9_Stale(ip, max_age_seconds)}
    /\ \A ip \in DOMAIN st.profiles : st.heap[st.profiles[ip]] = ProfileOf(ip)

C9_TrimExact ==
    \A max_age_seconds \in MaxAges :
        C9_Post(TrimStaleResult(EngineState, max_age_seconds, now), max_age_seconds)

\* an ip whose profile had requests is gone (only its age can have evicted it),
\* while a profile last seen longer ago than the max age is kept for its connection
C9_Witness ==
    /\ \E ip \in DOMAIN ip_request_timestamps : ip \notin DOMAIN profiles
    /\ \E ip \in DOMAIN profiles :
          /\ ProfileOf(ip).connections # <<>>
          /\ now - ProfileOf(ip).last_seen > DefaultMaxAge

\* C10: trim_stale_profiles removes every ip it evicts from the known-ip set (and
\* no other), so an ip without a profile is never in the set; such an ip enters the
\* set only by an update_connections call whose batch contains it, and that call
\* records exactly one new-connection event for it.
C10_Evict ==
    \A max_age_seconds \in MaxAges :
        LET st == TrimStaleResult(EngineState, max_age_seconds, now)
        IN  st.known_conn_ips = known_conn_ips \cap DOMAIN st.profiles

C10_Reappear ==
    \A conns \in SmallBatches :
        LET st    == UpdateConnectionsResult(EngineState, conns, now)
            fresh == BatchIps(conns) \ known_conn_ips
            kept  == SelectSeq(new_conn_timestamps, LAMBDA t : t > now - WINDOW)
        IN  /\ BatchIps(conns) \ (DOMAIN profiles) \subseteq fresh
            /\ st.known_conn_ips = known_conn_ips \cup BatchIps(conns)
            /\ st.new_conn_timestamps = kept \o [i \in 1..Cardinality(fresh) |-> now]

C10_Absent ==
    \A ip \in IPs :
        (ip \notin known_conn_ips /\ ip \in known_conn_ips')
            => \E conns \in SmallBatches :
                  ip \in BatchIps(conns) /\ UpdateConnections(conns)

C10_EvictedCountsAsNew ==
    /\ [](known_conn_ips \subseteq DOMAIN profiles /\ C10_Evict /\ C10_Reappear)
    /\ [][C10_Absent]_vars

\* more new-connection events in the window than there are ips: some ip has been
\* counted, evicted, and counted again
C10_Witness ==
    /\ Len(new_conn_timestamps) > Cardinality(IPs)
    /\ \A i \in DOMAIN new_conn_timestamps : new_conn_timestamps[i] = now

\* C11: update_connections records a new-connection event for an ip exactly when
\* the ip occurs in the batch and is not in the known-ip set: the window gains one
\* timestamp per such ip and none for any other. An ip stays in the set as long as
\* its profile exists, so an ip whose connections dropped to zero and whose profile
\* was not evicted is not counted again when a later batch contains it.
C11_Post(conns) ==
    LET st    == UpdateConnectionsResult(EngineState, conns, now)
        fresh == {ip \in IPs : ip \in BatchIps(conns) /\ ip \notin known_conn_ips}
        kept  == SelectSeq(new_conn_timestamps, LAMBDA t : t > now - WINDOW)
    IN  /\ Len(st.new_conn_timestamps) = Len(kept) + Cardinality(fresh)
        /\ \A i \in DOMAIN st.new_conn_timestamps :
              st.new_conn_timestamps[i] = IF i <= Len(kept) THEN kept[i] ELSE now
        /\ st.known_conn_ips \ known_conn_ips = fresh
        /\ \A ip \in BatchIps(conns) \cap DOMAIN profiles :
              (/\ ip \in known_conn_ips
               /\ ProfileOf(ip).connections = <<>>
               /\ BatchIps(conns) \ {ip} \subseteq known_conn_ips)
                  => st.new_conn_timestamps = kept

C11_NewExactlyWhenUnknown ==
    /\ [](\A conns \in SmallBatches : C11_Post(conns))
    /\ [][\A ip \in known_conn_ips : ip \in DOMAIN profiles' => ip \in known_conn_ips']_vars

\* an ip first seen in an earlier batch, never in the log, is in the batch polled
\* now, and the window holds no event for it
C11_Witness ==
    \E ip \in DOMAIN profiles :
        /\ ip \in known_conn_ips
        /\ ProfileOf(ip).total_requests = 0
        /\ ProfileOf(ip).connections # <<>>
        /\ ProfileOf(ip).first_seen < now
        /\ ProfileOf(ip).last_seen = now
        /\ new_conn_timestamps = <<>>

----------------------------------------------------------------------------
(* The whois service: completion, expiry, callbacks, the cache file, shutdown *)

\* the step in which the task at position w leaves its query and stores the result
C12_Stores(w) ==
    /\ w \in DOMAIN workers
    /\ workers[w].stage = "query"
    /\ w \in DOMAIN workers'
    /\ workers'[w].stage # "query"

\* a task leaves the executor only after it has stored a result
C12_EndsStored ==
    Len(workers') < Len(workers) =>
        \E w \in DOMAIN workers :
            /\ workers' = Without(workers, w)
            /\ workers[w].stage # "query"
            /\ workers[w].info \in LookupInfos

\* lookup(ip) on a valid entry returns it at once and hands nothing to the executor
C12_ServedFromCache(c, ip) ==
    (LookupBegin(c, ip, "cb1") /\ ~is_private_ip(ip) /\ Fresh(ip, now)) =>
        /\ last' = [result |-> cache[ip].info, outcome |-> "cached"]
        /\ callers'[c] = IdleCaller
        /\ queue' = queue
        /\ pending' = pending
        /\ cache' = cache

InitCb == InitEngine /\ InitService({DefaultCacheTtl}, {TRUE}, {TRUE}) /\ InitConcUnused /\ InitTailUnused
          /\ InitOtherUnused

NextCb ==
    \/ \E c \in 1..MaxCallers, ip \in IPs, cb \in Callbacks : LookupBegin(c, ip, cb)
    \/ \E c \in 1..MaxCallers : LookupSubmit(c)
    \/ WorkerStart
    \/ \E w \in 1..MaxWorkers, info \in LookupInfos : WorkerStore(w, info)
    \/ \E w \in 1..MaxWorkers, ok \in BOOLEAN : WorkerSave(w, ok)
    \/ \E w \in 1..MaxWorkers : WorkerCallback(w)

SpecCb == InitCb /\ [][NextCb]_vars

\* C13: for every whois lookup task that completes and whose lookup call supplied a
\* callback, the callback is invoked with (ip, result), whether the query succeeded
\* or failed and whether or not writing the cache file succeeded: no such task leaves
\* the executor without its invocation having been made.
C13_CallbackAlwaysInvoked ==
    [][\A w \in DOMAIN workers :
          (workers' = Without(workers, w) /\ workers[w].cb # None) =>
              <<workers[w].cb, workers[w].ip, workers[w].info>> \in invoked']_vars

\* after the step, a call or task that will invoke cb for ip exists
C14_Carried(ip, cb) ==
    \/ \E b \in 1..MaxCallers : callers'[b] = [pc |-> "marked", ip |-> ip, cb |-> cb]
    \/ \E i \in DOMAIN queue' : queue'[i] = [ip |-> ip, cb |-> cb]
    \/ \E w \in DOMAIN workers' : workers'[w].ip = ip /\ workers'[w].cb = cb

\* C14: lookup(ip, callback) for a non-private IP with no cached result, the pool
\* not shut down, has the lookup performed in the background and that callback called
\* with the result, also when another lookup of the IP is in flight: when the call
\* leaves lookup's locked block, a call about to submit, a queued task or a running
\* task for the IP carries the callback.
C14_CallbackCarried ==
    [][\A c \in 1..MaxCallers, ip \in IPs, cb \in Callbacks :
          (LookupBegin(c, ip, cb) /\ ip \notin DOMAIN cache /\ has_ipwhois /\ ~shut) =>
              C14_Carried(ip, cb)]_vars

\* the entry of ip is in the memory cache and its age has reached the TTL
C15_Expired(ip) == ip \in DOMAIN cache /\ now - cache[ip].ts >= cache_ttl

\* caller c returns from lookup(ip) or get_cached(ip) in this step
C15_Returns(c, ip) ==
    /\ LookupBegin(c, ip, "cb1") \/ GetCached(c, ip)
    /\ ~is_private_ip(ip)
    /\ callers'[c] = IdleCaller

\* what is returned is None or the entry of ip, and the entry only if not expired
C15_NoExpiredReturned(c, ip) ==
    C15_Returns(c, ip) =>
        \/ last'.result = None
        \/ /\ ip \in DOMAIN cache
           /\ ~C15_Expired(ip)
           /\ last'.result = cache[ip].info

\* entries leave the memory cache only in a lookup of their ip that finds them expired
C15_NoSweep ==
    \A ip \in DOMAIN cache :
        ip \notin DOMAIN cache' =>
            C15_Expired(ip) /\ \E c \in 1..MaxCallers : LookupBegin(c, ip, "cb1")

\* C15 as stated: neither lookup(ip) nor get_cached(ip) returns an entry whose age is
\* at or beyond the TTL, and an expired entry is removed from the memory cache by the
\* next access to that IP, lookup or get_cached, never by a background sweep.
C15_EvictedOnAccess ==
    [][/\ \A c \in 1..MaxCallers, ip \in WhoisIPs :
            /\ C15_NoExpiredReturned(c, ip)
            /\ ((LookupBegin(c, ip, "cb1") \/ GetCached(c, ip)) /\ C15_Expired(ip))
                   => ip \notin DOMAIN cache'
       /\ C15_NoSweep]_vars

\* C15, amended: neither lookup(ip) nor get_cached(ip) returns an entry whose age is at
\* or beyond the TTL, and an expired entry is removed from the memory cache by the
\* next lookup(ip) call for that IP (get_cached returns nothing for it and leaves it
\* in place), never by a background sweep.
C15_EvictedOnLookup ==
    [][/\ \A c \in 1..MaxCallers, ip \in WhoisIPs :
            /\ C15_NoExpiredReturned(c, ip)
            /\ (LookupBegin(c, ip, "cb1") /\ C15_Expired(ip)) => ip \notin DOMAIN cache'
            /\ GetCached(c, ip) => cache' = cache
            /\ (GetCached(c, ip) /\ C15_Expired(ip)) => last'.result = None
       /\ C15_NoSweep]_vars

\* under the default TTL a completed lookup's entry has expired and a later lookup,
\* finding it expired, has removed it and gone on to submit a new task
C15_Witness ==
    /\ cache_ttl = DefaultCacheTtl
    /\ invoked # {}
    /\ now >= DefaultCacheTtl
    /\ cache = <<>>
    /\ last.outcome = "submitted"
    /\ queue # <<>>
    /\ workers = <<>>

\* the service with a cache directory and a writable cache file, _save_to_disk taken
\* in its two halves; the TTL is the default and the clock stands still
InitDisk == InitEngine /\ InitService({DefaultCacheTtl}, {TRUE}, {TRUE}) /\ InitConcUnused /\ InitTailUnused
            /\ InitOtherUnused

NextDisk ==
    \/ \E c \in 1..MaxCallers, ip \in IPs : LookupBegin(c, ip, "cb1")
    \/ \E c \in 1..MaxCallers : LookupSubmit(c)
    \/ WorkerStart
    \/ \E w \in 1..MaxWorkers, info \in LookupInfos : WorkerStore(w, info)
    \/ \E w \in 1..MaxWorkers : WorkerRead(w)
    \/ \E w \in 1..MaxWorkers : WorkerWrite(w)
    \/ \E w \in 1..MaxWorkers : WorkerCallback(w)

SpecDisk == InitDisk /\ [][NextDisk]_vars

\* C16: with a cache directory configured, once every lookup of a set of distinct IPs
\* handled concurrently by the worker pool has completed, the cache file holds an entry
\* for each of those IPs.
C16_NoResultLost ==
    (/\ workers = <<>>
     /\ queue = <<>>
     /\ \A c \in 1..MaxCallers : callers[c].pc = "idle")
        => \A ip \in DOMAIN cache : ip \in DOMAIN disk /\ disk[ip].info = cache[ip].info

\* C17: shutdown() returns without waiting for any running lookup (it can be called
\* whatever the executor's threads are doing, and takes one step that leaves the
\* running tasks as they are), and every task queued but not started at shutdown never
\* starts afterwards: the step empties the queue, and from then on the queue stays
\* empty and no task enters the executor's threads.
C17_ShutdownAbandons ==
    /\ [](~shut => ENABLED Shutdown)
    /\ [](shut => queue = <<>>)
    /\ [][/\ (~shut /\ shut') => (workers' = workers /\ queue' = <<>>)
          /\ shut => (shut' /\ Len(workers') <= Len(workers))]_vars

\* shutdown has returned while a lookup that has stored its result is still running
C17_Witness ==
    /\ shut
    /\ \E w \in DOMAIN workers : workers[w].stage = "save"
    /\ cache # <<>>
    /\ last.outcome = "submitted"
    /\ invoked = {}

----------------------------------------------------------------------------
(* The log watcher: first poll, tailing, rotation *)

\* a watcher constructed on an existing log, polled while the server appends lines
\* and the log is rotated or truncated
InitTailing == InitEngine /\ InitWhoisUnused /\ InitConcUnused
                   /\ InitTail(InitContents, {MaxBuffer}) /\ InitMultiUnused
                   /\ InitOtherUnused

NextTail ==
    \/ Poll
    \/ \E kind \in LineKinds : AppendLine(kind, "1.2.3.4")
    \/ Rotate
    \/ Truncate

SpecTail == InitTailing /\ [][NextTail]_vars

\* the lines of the file at log_path
Content == logfs.files[logfs.path]

\* C18: the first poll() of a freshly constructed watcher on an existing file returns
\* zero entries whatever the file contains, and a single well-formed line appended
\* afterwards is returned as exactly one entry by the next poll.
C18_TailsOnlyNew ==
    LET r == PollResult(watcher, logfs)
    IN  /\ tailed.polls = 0 =>
              (r.entries = <<>> /\ ~r.raised /\ r.watcher.offset = Size(logfs))
        /\ (/\ tailed.polls = 1
            /\ logfs.changes = 0
            /\ Size(logfs) = tailed.start + 1
            /\ Content[Size(logfs)].kind = "match")
               => (r.entries = <<Content[Size(logfs)]>> /\ ~r.raised)

\* the log had a line when the watcher was built; the first poll returned nothing and
\* the second returned the one line appended in between
C18_Witness ==
    /\ tailed.polls = 2
    /\ tailed.start = 1
    /\ logfs.changes = 0
    /\ Size(logfs) = 2
    /\ tailed.entries = <<Content[2]>>
    /\ tailed.returned = tailed.entries

\* C19: without rotation, over any sequence of appends of complete lines and polls
\* after the first poll, the concatenation of the poll results is exactly the
\* sequence of appended lines that match the grammar, in file order, each returned by
\* exactly one poll: whenever a poll returns, what the polls have returned so far is
\* the matching lines among those appended since the first poll.
C19_ExactlyOnce ==
    LET r == PollResult(watcher, logfs)
    IN  (tailed.polls >= 1 /\ logfs.changes = 0) =>
            /\ ~r.raised
            /\ tailed.returned \o r.entries =
                   Entries(SubSeq(Content, tailed.start + 1, Size(logfs)))

\* C20: if between two polls the watched path is replaced by a file of another
\* identity, or the file is truncated below the last read offset, the next poll closes
\* the stale handle and returns the matching lines of the current file from offset
\* zero, not from the old offset.
C20_RotationRereads ==
    LET r == PollResult(watcher, logfs)
    IN  tailed.rotated =>
            /\ ~r.raised
            /\ r.watcher.file = logfs.path
            /\ r.entries = Entries(Content)

----------------------------------------------------------------------------
(* The log watcher's per-IP buffers, the multi-file watcher, the JSON grammar *)

\* watchers of every cap from 0 up, on a log whose lines come from two clients
InitBuffer == InitEngine /\ InitWhoisUnused /\ InitConcUnused
                  /\ InitTail({<<>>}, 0..MaxBuffer) /\ InitMultiUnused
                  /\ InitOtherUnused

NextBuffer ==
    \/ Poll
    \/ \E kind \in LineKinds, ip \in IPs : AppendLine(kind, ip)

SpecBuffer == InitBuffer /\ [][NextBuffer]_vars

\* the n most recent entries of buf
MostRecent(buf, n) ==
    IF Len(buf) <= n THEN buf ELSE SubSeq(buf, Len(buf) - n + 1, Len(buf))

\* the entries of ip among the lines that a poll from (w, fs) parses
C21_Parsed(w, fs, ip) ==
    LET o == Opened(Reopened(w, fs), fs)
        r == ReadLines(o, fs)
    IN  SelectSeq(SubSeq(fs.files[o.file], o.offset + 1, r.watcher.offset),
                  LAMBDA l : l.kind = "match" /\ l.ip = ip)

\* C21: for every configured cap N >= 0 and after any sequence of polls, the buffer of
\* each source IP holds at most N entries, and they are the most recently parsed
\* entries of that IP in arrival order: each poll leaves the N most recent of the
\* buffer it found followed by the entries of the IP it parsed.
C21_BufferCapped ==
    LET r == PollResult(watcher, logfs)
        N == watcher.max_entries_per_ip
    IN  /\ \A ip \in DOMAIN watcher.ip_buffers : Len(watcher.ip_buffers[ip]) <= N
        /\ \A ip \in DOMAIN r.watcher.ip_buffers :
              LET old == IF ip \in DOMAIN watcher.ip_buffers
                         THEN watcher.ip_buffers[ip] ELSE <<>>
              IN  r.watcher.ip_buffers[ip] =
                      MostRecent(old \o C21_Parsed(watcher, logfs, ip), N)

\* a multi-file watcher over a pattern that two paths can match, while logs appear,
\* disappear and grow
InitGlob == InitEngine /\ InitWhoisUnused /\ InitConcUnused
                /\ InitTail({<<>>}, {DefaultMaxEntries})
                /\ InitMulti({{PathOrder[1]}, Paths}, {0, MaxBuffer})
                /\ InitOtherUnused

NextMulti ==
    \/ MultiRescan
    \/ MultiPoll
    \/ \E p \in Paths, kind \in {"match", "raise"}, ts \in Timestamps :
          MultiAppend(p, kind, "1.2.3.4", ts)
    \/ \E p \in Paths : MultiCreate(p)
    \/ \E p \in Paths : MultiUnlink(p)

SpecMulti == InitGlob /\ [][NextMulti]_vars

\* C22: after rescan(), the set of watched paths equals the set of paths currently
\* matching the pattern: a tailer is added for every newly matching path, and the
\* tailer of every path that no longer matches is closed and removed.
C22_WatchedIsMatching ==
    LET m == RescanResult(multi, globfs)
    IN  DOMAIN m.watchers = {p \in Paths : globfs[p].path # NoInode}

\* the entries of a list, as a set
Members(entries) == {entries[i] : i \in DOMAIN entries}

\* C23: MultiLogWatcher.poll() returns exactly the union of the entries its child
\* tailers return in that poll, ordered by non-decreasing timestamp, and after the poll
\* each IP's merged buffer across files holds at most the configured cap of entries.
C23_MergedPoll ==
    LET r == MultiPollResult(multi, globfs)
    IN  /\ ~r.raised
        /\ Len(r.entries) = Len(r.children)
        /\ Members(r.entries) = Members(r.children)
        /\ \A i \in 1..(Len(r.entries) - 1) :
              r.entries[i].timestamp <= r.entries[i + 1].timestamp
        /\ \A ip \in DOMAIN r.multi.ip_buffers :
              Len(r.multi.ip_buffers[ip]) <= multi.max_entries_per_ip


InitJson == InitEngine /\ InitWhoisUnused /\ InitConcUnused /\ InitTailUnused
                /\ InitParse(JsonObjects) /\ InitConnUnused /\ InitFilterUnused

NextJson == ParseJson

\* the JSON parser applied to one JSON object of the bounded set
SpecJson == InitJson /\ [][NextJson]_vars

\* the first of the four fields that holds a value, in the order of the claim
C24_FirstPresent(data) ==
    LET request == RequestOf(data)
        present(v) == v.type # "null" /\ v.chars # <<>>
    IN  IF present(request.remote_ip) THEN request.remote_ip
        ELSE IF present(request.remote_addr) THEN request.remote_addr
        ELSE IF present(data.remote_ip) THEN data.remote_ip
        ELSE data.remote_addr

\* a bare IPv6 literal: two colons or more, no brackets
C24_BareIPv6(s) ==
    /\ \E i, j \in DOMAIN s : i < j /\ s[i] = ":" /\ s[j] = ":"
    /\ \A i \in DOMAIN s : s[i] \notin {"[", "]"}

\* the address without its ":port" suffix, a bare IPv6 literal unchanged
C24_WithoutPort(s) ==
    IF C24_BareIPv6(s) \/ ~HasColon(s) THEN s
    ELSE LET k == CHOOSE i \in DOMAIN s : s[i] = ":" /\ \A j \in (i + 1)..Len(s) : s[j] # ":"
         IN  IF k < Len(s) /\ \A j \in (k + 1)..Len(s) : s[j] \in Digits
             THEN SubSeq(s, 1, k - 1) ELSE s

\* C24: the client IP of the entry parsed from a JSON line is the first present of
\* the nested remote_ip, the nested remote_addr, the flat remote_ip and the flat
\* remote_addr, with a trailing ":port" stripped only when it is a port suffix:
\* "1.2.3.4:12345" gives "1.2.3.4", and a bare IPv6 literal is left unchanged.
C24_ClientIp ==
    parsed.result.outcome = "entry" =>
        parsed.result.remote_ip = C24_WithoutPort(C24_FirstPresent(parsed.data).chars)

\* the lines a poll of the watcher reads: those after the offset it reads from
C25_Read(w, fs) ==
    LET o == Opened(Reopened(w, fs), fs)
    IN  SubSeq(fs.files[o.file], o.offset + 1, Len(fs.files[o.file]))

\* C25: a malformed line (one that matches no grammar, corrupt JSON, a JSON line
\* whose request is not an object or whose status or size is not numeric) is skipped
\* alone: a poll never aborts on it, and returns the entries of all the well-formed
\* lines among the lines it reads.
C25_MalformedSkipped ==
    LET r == PollResult(watcher, logfs)
    IN  /\ ~r.raised
        /\ logfs.path # NoInode => r.entries = Entries(C25_Read(watcher, logfs))

(***************************************************************************)
(* The connection collector                                                *)
(***************************************************************************)
InitTables == InitEngine /\ InitWhoisUnused /\ InitConcUnused /\ InitTailUnused
                  /\ InitParseUnused
                  /\ InitProc({"readable", "missing", "unreadable"}, {NoPids, Pids})
                  /\ InitFilterUnused

NextTables ==
    \/ \E include_private \in BOOLEAN : PollConnections(include_private)
    \/ \E line \in Rows4 : AddRow("tcp", line)
    \/ \E line \in Rows6 : AddRow("tcp6", line)

\* the collector polled over tables of at most MaxRows lines
SpecTables == InitTables /\ [][NextTables]_vars

Listed(connections) == {connections[i] : i \in DOMAIN connections}

\* C26: no connection get_connections returns is in state LISTEN, whatever
\* include_private is, for the lines of the IPv4 and of the IPv6 table.
C26_NoListen ==
    \A include_private \in BOOLEAN :
        \A conn \in Listed(get_connections(include_private, proc).connections) :
            conn.state # LISTEN

\* a LISTEN line with a public remote stands in a readable table, and the poll returned
\* the connection of another line
C26_Witness ==
    /\ collected.polled
    /\ collected.result.connections # <<>>
    /\ \E table \in {"tcp", "tcp6"} : \E i \in DOMAIN proc[table].lines :
          /\ proc[table].status = "readable"
          /\ proc[table].lines[i].st = Listening
          /\ proc[table].lines[i].remote \in {Public4, Public6}

\* the connections the lines of the readable tables parse to that are not listening
\* sockets
C27_Connections ==
    {conn \in {parse_tcp4_line(Rows(proc.tcp)[i]) : i \in DOMAIN Rows(proc.tcp)}
                \cup {parse_tcp6_line(Rows(proc.tcp6)[i]) : i \in DOMAIN Rows(proc.tcp6)} :
        conn.outcome = "connection" /\ conn.state # LISTEN}

C27_Returned(conn, include_private) ==
    \E c \in Listed(get_connections(include_private, proc).connections) :
        c.remote_ip = conn.remote_ip /\ c.state = conn.state

\* a loopback address (127.0.0.0/8, ::1) or the any-address (0.0.0.0, ::)
C27_LoopbackOrAny(a) == is_loopback(a) \/ a = Zeros(Len(a))

\* C27: a connection whose remote address is a loopback or the any-address is never
\* returned, whatever include_private is; a connection with a non-private remote is
\* always returned (unless LISTEN); a connection with a private or reserved remote is
\* returned if and only if include_private is set.
C27_RemoteFilter ==
    \A conn \in C27_Connections : \A include_private \in BOOLEAN :
        /\ C27_LoopbackOrAny(conn.remote_ip) => ~C27_Returned(conn, include_private)
        /\ ~is_private_address(conn.remote_ip) => C27_Returned(conn, include_private)
        /\ (is_private_address(conn.remote_ip) /\ ~C27_LoopbackOrAny(conn.remote_ip)) =>
               (C27_Returned(conn, include_private) <=> include_private)

\* C28: get_connections never fails: a table line with a wrong field count, non-hex
\* content, an over-long hex address or an unknown state code is skipped alone and
\* the connections of all other lines are still returned; a missing or unreadable
\* table file contributes no connections.
C28_BadLineSkipped ==
    \A include_private \in BOOLEAN :
        LET r == get_connections(include_private, proc)
        IN  /\ ~r.raised
            /\ \A conn \in C27_Connections :
                  Kept(conn, include_private) => C27_Returned(conn, include_private)
            /\ \A c \in Listed(r.connections) : \E table \in {"tcp", "tcp6"} :
                  /\ proc[table].status = "readable"
                  /\ \E i \in 2..Len(proc[table].lines) :
                        LET conn == ParseTcpLine(table, proc[table].lines[i])
                        IN  conn.outcome = "connection" /\ c = [conn EXCEPT !.pid = c.pid]

(***************************************************************************)
(* Suspicious mode                                                         *)
(***************************************************************************)
MaxShown == 2           \* bound: the connections, and the log entries, of a profile

NmapAgent == <<"N", "m", "a", "p">>
BrowserAgent == <<"M", "o", "z", "i", "l", "l", "a">>
EvilAgent == <<"e", "V", "I", "L", "b", "o", "t">>
UserAgents == {<<>>, NmapAgent, BrowserAgent, EvilAgent}

Profiles ==
    {[NoProfile EXCEPT !.connections = conns, !.total_requests = total,
                       !.request_rate_per_min = rate, !.log_entries = uas] :
        conns \in SeqsUpTo({ESTABLISHED, SYN_RECV}, MaxShown), total \in 0..2,
        rate \in {0, DefaultBurstRpm, DefaultBurstRpm + 1},
        uas \in SeqsUpTo(UserAgents, MaxShown)}

InitSuspicious == InitEngine /\ InitWhoisUnused /\ InitConcUnused /\ InitTailUnused
                      /\ InitParseUnused /\ InitConnUnused
                      /\ InitDashboard({<<>>}, {<<>>}, {DefaultBurstRpm},
                                       {MaxShown, DefaultMinConns}, {<<>>, <<EvilPattern>>})
                      /\ InitProfile(Profiles)

NextSuspicious ==
    \/ ToggleSuspicious
    \/ MatchProfile

\* the filter state, toggled in and out of suspicious mode, asked about one profile
SpecSuspicious == InitSuspicious /\ [][NextSuspicious]_vars

\* the four clauses of the claim
C29_SynRecv(p) ==
    p.total_requests = 0 /\ \E i \in DOMAIN p.connections : p.connections[i] = SYN_RECV

C29_ManyConns(f, p) ==
    Len(p.connections) >= f.suspicious_min_conns /\ p.total_requests <= 1

C29_Burst(f, p) == p.request_rate_per_min > f.suspicious_burst_rpm

C29_Scanner(f, p) ==
    /\ p.log_entries # <<>>
    /\ \E pattern \in Range(SCANNER_PATTERNS) \cup Range(f.extra_scanner_patterns) :
          Contains(Lower(p.log_entries[Len(p.log_entries)]), Lower(pattern))

\* C29: in suspicious mode matches_profile(p) is exactly the OR of four clauses: no
\* cumulative request and a connection in SYN_RECV; at least suspicious_min_conns
\* connections and at most one cumulative request; a request rate above
\* suspicious_burst_rpm; the user agent of the most recent log entry contains,
\* whatever the case, a built-in or configured scanner pattern.
C29_SuspiciousIsOr ==
    LET f == dashboard.filters
        p == matched.profile
    IN  f.suspicious_mode =>
            (matches_profile(f, p) <=>
                (C29_SynRecv(p) \/ C29_ManyConns(f, p) \/ C29_Burst(f, p) \/ C29_Scanner(f, p)))

\* the filter state in suspicious mode matched a profile that satisfies the scanner
\* clause only, through a configured pattern written in another case
C29_Witness ==
    LET f == dashboard.filters
        p == matched.profile
    IN  /\ f.suspicious_mode /\ matched.asked /\ matched.result
        /\ ~C29_SynRecv(p) /\ ~C29_ManyConns(f, p) /\ ~C29_Burst(f, p)
        /\ Len(p.log_entries) = MaxShown
        /\ p.log_entries[1] = BrowserAgent
        /\ p.log_entries[Len(p.log_entries)] = EvilAgent

InitToggle == InitEngine /\ InitWhoisUnused /\ InitConcUnused /\ InitTailUnused
                  /\ InitParseUnused /\ InitConnUnused
                  /\ InitDashboard({<<>>, <<Net10>>}, {<<>>, <<Net8_8>>},
                                   {DefaultBurstRpm}, {MaxShown, DefaultMinConns},
                                   {<<>>, <<EvilPattern>>})
                  /\ InitProfile({NoProfile})

NextToggle ==
    \/ ToggleSuspicious
    \/ FilterLog
    \/ \E text \in {<<>>, BotText} : InputSubmitted(text)
    \/ \E tcp_states \in {Absent, Some({SYN_RECV})},
          status_codes \in {Absent, Some(<<<<400, 499>>>>)},
          min_request_rate \in {Absent, Some(10)}, text \in {<<>>, BotText} :
              ApplyFilters(tcp_states, status_codes, min_request_rate, text)
    \/ ClearFilters

\* the dashboard's filter state under its handlers
SpecToggle == InitToggle /\ [][NextToggle]_vars

\* C30: enabling suspicious mode keeps the CIDR allow and deny lists and the
\* suspicious thresholds of the filter state in use, and switching the mode on and
\* then off gives a filter state equal field by field (TCP states, status ranges,
\* minimum rate, CIDR lists, text filter, thresholds, flag off) to the one before
\* it was enabled.
C30_ToggleReversible ==
    LET f == dashboard.filters
        on == ToggleResult(dashboard)
    IN  /\ ~f.suspicious_mode =>
              /\ on.filters.suspicious_mode
              /\ on.filters.cidr_allow = f.cidr_allow
              /\ on.filters.cidr_deny = f.cidr_deny
              /\ on.filters.suspicious_burst_rpm = f.suspicious_burst_rpm
              /\ on.filters.suspicious_min_conns = f.suspicious_min_conns
              /\ on.filters.extra_scanner_patterns = f.extra_scanner_patterns
              /\ ToggleResult(on).filters = f
        /\ f.suspicious_mode =>
              /\ on.filters = toggled.from
              /\ ~on.filters.suspicious_mode

\* suspicious mode was enabled from a filter state with every field set, and it
\* has been switched off
C30_Witness ==
    /\ toggled.last = "off"
    /\ dashboard.filters = toggled.from
    /\ dashboard.filters.tcp_states # Absent
    /\ dashboard.filters.status_codes # Absent
    /\ dashboard.filters.min_request_rate # Absent
    /\ dashboard.filters.text_filter = Some(Lower(BotText))
    /\ dashboard.filters.cidr_allow # <<>>
    /\ dashboard.filters.cidr_deny # <<>>
    /\ ~dashboard.filters.suspicious_mode

(***************************************************************************)
(* The filter state outside suspicious mode                                *)
(***************************************************************************)
Net10_1 == <<10, 1>>                        \* 10.1.0.0/16
BotNetOrg == <<"B", "o", "t", "N", "e", "t">>
BotPath == <<"/", "B", "o", "t">>
EightText == <<"8", ".", "8">>
ShownIps == {<<10, 1, 2, 3>>, <<10, 2, 0, 1>>, <<8, 8, 8, 8>>}

ShownProfiles ==
    {[NoProfile EXCEPT !.ip = ip, !.as_org = org, !.connections = conns,
                       !.request_rate_per_min = rate] :
        ip \in ShownIps, org \in {<<"?">>, BotNetOrg},
        conns \in {<<>>, <<ESTABLISHED>>, <<ESTABLISHED, SYN_RECV>>}, rate \in {9, 10}}

ShownEntries ==
    {[NoShownEntry EXCEPT !.remote_ip = ip, !.status_code = status, !.path = path] :
        ip \in ShownIps, status \in {399, 400, 499, 500}, path \in {<<"/">>, BotPath}}

InitNormal == InitEngine /\ InitWhoisUnused /\ InitConcUnused /\ InitTailUnused
                  /\ InitParseUnused /\ InitConnUnused
                  /\ InitDashboard({<<>>, <<Net10>>}, {<<>>, <<Net10_1>>},
                                   {DefaultBurstRpm}, {DefaultMinConns}, {<<>>})
                  /\ InitShown(ShownProfiles, ShownEntries)

NextNormal ==
    \/ FilterLog
    \/ \E text \in {<<>>, BotText, EightText} : InputSubmitted(text)
    \/ \E tcp_states \in {Absent, Some({SYN_RECV})},
          status_codes \in {Absent, Some(<<<<400, 499>>>>)},
          min_request_rate \in {Absent, Some(10)}, text \in {<<>>, BotText, EightText} :
              ApplyFilters(tcp_states, status_codes, min_request_rate, text)
    \/ ClearFilters
    \/ MatchProfile
    \/ MatchEntry

\* the dashboard's filter state under its handlers, asked about a profile or an entry
SpecNormal == InitNormal /\ [][NextNormal]_vars

\* the address lies in the network
C31_Inside(ip, net) == \A k \in DOMAIN net : k \in DOMAIN ip /\ ip[k] = net[k]

C31_Lists(f, ip) ==
    /\ f.cidr_allow # <<>> => \E i \in DOMAIN f.cidr_allow : C31_Inside(ip, f.cidr_allow[i])
    /\ \A i \in DOMAIN f.cidr_deny : ~C31_Inside(ip, f.cidr_deny[i])

\* the predicates of a profile, the text predicate taken on the text as it is (lowered
\* = FALSE) or on the lower-cased text (lowered = TRUE)
C31_ProfilePredicates(f, p, lowered) ==
    LET text == Dotted(p.ip) \o <<" ">> \o p.as_org
    IN  /\ C31_Lists(f, p.ip)
        /\ f.tcp_states # Absent => Range(p.connections) \cap f.tcp_states[1] # {}
        /\ f.min_request_rate # Absent => p.request_rate_per_min >= f.min_request_rate[1]
        /\ f.text_filter # Absent =>
               Contains(IF lowered THEN Lower(text) ELSE text, f.text_filter[1])

C31_EntryPredicates(f, e, lowered) ==
    LET text == EntryText(e)
    IN  /\ C31_Lists(f, e.remote_ip)
        /\ f.status_codes # Absent =>
               \E r \in Range(f.status_codes[1]) : r[1] <= e.status_code /\ e.status_code <= r[2]
        /\ f.text_filter # Absent =>
               Contains(IF lowered THEN Lower(text) ELSE text, f.text_filter[1])

C31_Composition(lowered) ==
    LET f == dashboard.filters
        p == matched.profile
        e == matched.entry
    IN  ~f.suspicious_mode =>
            /\ matches_profile(f, p) <=> C31_ProfilePredicates(f, p, lowered)
            /\ matches_log_entry(f, e) <=> C31_EntryPredicates(f, e, lowered)
            /\ ~is_active(f) => matches_profile(f, p) /\ matches_log_entry(f, e)

\* C31 as stated: with suspicious mode off, matches_profile(p) is true exactly when
\* every active predicate holds (a non-empty allow list contains the ip, the deny list
\* does not, a set TCP-state filter intersects the connection states, the request rate
\* is at least a set minimum, a set text filter is a substring of the profile's ip
\* and organization), matches_log_entry(e) likewise for the lists, the inclusive
\* status ranges and the text; a filter state with no active field matches everything.
C31_SubstringOfText == C31_Composition(FALSE)

\* C31, amended: the same, the text filter being a substring of the lower-cased text
\* of the profile's ip and organization (of the entry's ip, status, method and path).
C31_SubstringOfLowered == C31_Composition(TRUE)

\* a filter state with lists, TCP states, minimum rate and text has passed a profile
\* whose organization matches the text only once lower-cased, at the minimum rate
C31_Witness ==
    LET f == dashboard.filters
        p == matched.profile
    IN  /\ ~f.suspicious_mode /\ matched.kind = "profile" /\ matched.asked /\ matched.result
        /\ f.cidr_allow # <<>> /\ f.cidr_deny # <<>>
        /\ f.tcp_states # Absent /\ f.min_request_rate = Some(p.request_rate_per_min)
        /\ f.text_filter = Some(Lower(BotText))
        /\ p.as_org = BotNetOrg
        /\ matches_profile(f, p)

(***************************************************************************)
(* The order of get_profiles                                               *)
(***************************************************************************)
\* the batches of the connection polls: both ips connected, or none
SortBatches == {<<>>, <<Conn("1.2.3.4", "ESTABLISHED"), Conn("5.6.7.8", "ESTABLISHED")>>}

\* the lines of the log polls: one request of the second ip
SortEntries == {<<[remote_ip |-> "5.6.7.8", timestamp |-> now, bytes_sent |-> 1024]>>}

\* a connection poll and a log poll on worker threads, get_profiles on another thread
NextSort ==
    \/ \E conns \in SortBatches : UpdBegin(conns)
    \/ UpdApply
    \/ UpdEnd
    \/ \E entries \in SortEntries : LockedLogEntries(entries)
    \/ GpBegin
    \/ GpKey
    \/ GpEnd

SpecSort == Init /\ [][NextSort]_vars

\* adjacent profiles of the list: the earlier has more ESTABLISHED connections, or as
\* many and at least as many cumulative requests
C32_Ordered(h, refs) ==
    \A i \in 1..(Len(refs) - 1) :
        LET p == h[refs[i]]
            q == h[refs[i + 1]]
        IN  \/ active_connections(p) > active_connections(q)
            \/ /\ active_connections(p) = active_connections(q)
               /\ p.total_requests >= q.total_requests

\* C32: the list get_profiles() returns is ordered by non-increasing
\* (active_connections, total_requests): by what its profiles held when the call took
\* the lock, or when it took one of the keys, or when it returned.
C32_SortedDescending ==
    (rd.pc = "keys" /\ rd.i > Len(ret)) =>
        \E h \in rd.seen \cup {heap} : C32_Ordered(h, SortedByKeys(ret, rd.keys))

\* the same for a call of get_profiles that no update overlaps
C32_SortedAlone == C32_Ordered(WithRates(EngineState), GetProfilesResult(EngineState))

(***************************************************************************)
(* The rolling windows                                                     *)
(***************************************************************************)
\* the batches of the connection polls: no connection, or one of either ip
WindowBatches == {<<>>} \cup {<<Conn(ip, "ESTABLISHED")>> : ip \in IPs}

\* the engine under connection and log polls, the clock advancing by half windows
NextWindow ==
    \/ \E conns \in WindowBatches : UpdateConnections(conns)
    \/ \E entries \in LogBatches(now, {1024}, 1) : UpdateLogEntries(entries)
    \/ Elapse

SpecWindow == Init /\ [][NextWindow]_vars

\* every timestamp of the list is later than T - 60
C33_Within(ts, T) == \A i \in DOMAIN ts : ts[i] > T - WINDOW

\* C33: right after any update_log_entries call at time T the global and every
\* per-IP request-timestamp list hold only timestamps later than T - 60, and right
\* after any update_connections call at time T so does the new-connection list.
C33_TrimmedOnUpdate ==
    /\ \A entries \in LogBatches(now, {1024}, 1) :
          LET st == UpdateLogEntriesResult(EngineState, entries, now)
          IN  /\ C33_Within(st.request_timestamps, now)
              /\ \A ip \in DOMAIN st.ip_request_timestamps :
                    C33_Within(st.ip_request_timestamps[ip], now)
    /\ \A conns \in WindowBatches :
          C33_Within(UpdateConnectionsResult(EngineState, conns, now).new_conn_timestamps, now)

\* an update has dropped a request and a new-connection event from the windows and
\* kept later ones: an ip has more cumulative requests than timestamps in its window,
\* both ips are known and one new-connection event is left, none of them from now
C33_Witness ==
    /\ \E ip \in DOMAIN ip_request_timestamps :
          /\ ProfileOf(ip).total_requests > Len(ip_request_timestamps[ip])
          /\ C33_Within(ip_request_timestamps[ip], now)
          /\ ip_request_timestamps[ip][1] < now
    /\ C33_Within(request_timestamps, now)
    /\ known_conn_ips = IPs
    /\ Len(new_conn_timestamps) = 1
    /\ C33_Within(new_conn_timestamps, now)
    /\ new_conn_timestamps[1] < now

(***************************************************************************)
(* A log that appears after the watcher was constructed                    *)
(***************************************************************************)
InitLate == InitEngine /\ InitWhoisUnused /\ InitConcUnused
                /\ InitMissing({MaxBuffer}) /\ InitMultiUnused
                /\ InitOtherUnused

\* the watcher is polled while the server creates the log and appends lines to it
NextLate ==
    \/ Poll
    \/ CreateLog
    \/ \E kind \in {"match", "nomatch"}, ip \in IPs : AppendLine(kind, ip)

SpecLate == InitLate /\ [][NextLate]_vars

\* C34: only the very first poll of a watcher skips existing content: when the file
\* did not exist at the polls made so far and exists now, the poll that opens it
\* returns the matching lines the file contains, read from its start.
C34_LateFileFromStart ==
    (tailed.polls > 0 /\ watcher.inode = NoInode /\ logfs.path # NoInode) =>
        LET r == PollResult(watcher, logfs)
        IN  /\ r.entries = Entries(Content)
            /\ r.watcher.position = Size(logfs)

(***************************************************************************)
(* Suspicious mode and the CIDR lists                                      *)
(***************************************************************************)
ScopedProfiles ==
    {[NoProfile EXCEPT !.ip = ip, !.connections = conns, !.request_rate_per_min = rate] :
        ip \in ShownIps, conns \in {<<>>, <<SYN_RECV>>},
        rate \in {0, DefaultBurstRpm + 1}}

InitScoped == InitEngine /\ InitWhoisUnused /\ InitConcUnused /\ InitTailUnused
                  /\ InitParseUnused /\ InitConnUnused
                  /\ InitDashboard({<<>>, <<Net10>>}, {<<>>, <<Net10_1>>},
                                   {DefaultBurstRpm}, {DefaultMinConns}, {<<>>})
                  /\ InitShown(ScopedProfiles, {})

NextScoped ==
    \/ ToggleSuspicious
    \/ FilterLog
    \/ \E text \in {<<>>, EightText} : InputSubmitted(text)
    \/ MatchProfile

\* the dashboard with configured CIDR lists, toggled in and out of suspicious mode
SpecScoped == InitScoped /\ [][NextScoped]_vars

\* C35: while suspicious mode is on, a profile whose ip lies in a deny-listed network,
\* or outside a non-empty allow list, does not pass matches_profile, even if it
\* satisfies a suspicious clause.
C35_ListsStillScope ==
    LET f == dashboard.filters
        p == matched.profile
    IN  (f.suspicious_mode /\ ~C31_Lists(f, p.ip)) => ~matches_profile(f, p)

----------------------------------------------------------------------------
(* screens/dashboard.py: the poll workers with _enrich_ip and its whois callback *)

\* the callback _enrich_ip hands to lookup()
OnWhois == "_on_whois"

\* _enrich_ip(ip) on the engine state st: whether it reaches whois.lookup
\* (no GeoIP database is configured)
WantsWhois(st, ip) ==
    /\ ~is_private_ip(ip)
    /\ ip \in DOMAIN st.profiles
    /\ has_ipwhois
    /\ st.heap[st.profiles[ip]].whois = None

\* the loop over the ips seen in a poll of at most one ip, on worker thread c:
\* _enrich_ip runs up to the end of lookup()'s locked block
EnrichSeen(c, st, seen) ==
    IF seen # <<>> /\ WantsWhois(st, seen[1])
    THEN LookupLocked(c, seen[1], OnWhois)
    ELSE UNCHANGED whoisVars

\* _run_connections_worker._work: update_connections, then _enrich_ip of the ip seen
ConnectionsWork(c, conns) ==
    LET st == UpdateConnectionsResult(EngineState, conns, now)
    IN  /\ FirstIdle(c)
        /\ Len(st.new_conn_timestamps) <= MaxTs
        /\ InstallEngine(st)
        /\ EnrichSeen(c, st, [i \in DOMAIN conns |-> conns[i].remote_ip])
        /\ UNCHANGED <<now, ret, concVars, tailVars, otherVars>>

\* _poll_logs._work on a poll that returned entries: update_log_entries, then
\* _enrich_ip of the ip seen
LogsWork(c, entries) ==
    LET st == UpdateLogEntriesResult(EngineState, entries, now)
    IN  /\ FirstIdle(c)
        /\ entries # <<>>
        /\ Len(st.request_timestamps) <= MaxTs
        /\ InstallEngine(st)
        /\ EnrichSeen(c, st, [i \in DOMAIN entries |-> entries[i].remote_ip])
        /\ UNCHANGED <<now, ret, concVars, tailVars, otherVars>>

\* _do_lookup calls _on_whois(ip, info): engine.update_whois; the task ends
WorkerOnWhois(w) ==
    LET st == SetDefault(EngineState, workers[w].ip)
        o  == st.profiles[workers[w].ip]
    IN  /\ w \in DOMAIN workers
        /\ workers[w].stage = "callback"
        /\ workers[w].cb = OnWhois
        /\ InstallEngine([st EXCEPT !.heap[o].whois = workers[w].info])
        /\ invoked' = invoked \cup {<<OnWhois, workers[w].ip, workers[w].info>>}
        /\ workers' = Without(workers, w)
        /\ UNCHANGED <<cache, pending, cache_ttl, has_ipwhois, queue, shut, callers, last>>
        /\ UNCHANGED <<cache_dir, disk>>
        /\ UNCHANGED <<now, ret, concVars, tailVars, otherVars>>

\* _load_disk_cache at time t: the entries of the cache file younger than the TTL
LoadDiskCache(data, t, ttl) ==
    Restrict(data, {ip \in DOMAIN data : t - data[ip].ts < ttl})

\* the cache files found at startup: none; a result saved an hour before; one saved
\* a whole TTL before
SavedFiles ==
    {<<>>,
     "1.2.3.4" :> [info |-> "EXAMPLE-NET", ts |-> 0 - 3600],
     "1.2.3.4" :> [info |-> "EXAMPLE-NET", ts |-> 0 - DefaultCacheTtl]}

\* the dashboard at startup: an empty engine, the service constructed over a cache file
InitCached ==
    /\ InitEngine /\ InitConcUnused /\ InitTailUnused /\ InitOtherUnused
    /\ disk \in SavedFiles
    /\ cache_ttl = DefaultCacheTtl
    /\ cache = LoadDiskCache(disk, now, cache_ttl)
    /\ pending = {}
    /\ has_ipwhois = TRUE
    /\ cache_dir = TRUE
    /\ invoked = {}
    /\ queue = <<>>
    /\ workers = <<>>
    /\ shut = FALSE
    /\ callers = [c \in 1..MaxCallers |-> IdleCaller]
    /\ last = NoReturn

\* the ip that keeps appearing in the polls
PolledIPs == {"1.2.3.4"}

\* a connection poll that sees ip
PollsOf(ip) ==
    \E c \in 1..MaxCallers : ConnectionsWork(c, <<Conn(ip, "ESTABLISHED")>>)

\* a log poll that has read a request of ip
LogPollsOf(ip) ==
    \E c \in 1..MaxCallers :
        LogsWork(c, <<[remote_ip |-> ip, timestamp |-> now, bytes_sent |-> 1024]>>)

\* the steps of the whois service's own threads, the cache file writable
ServiceSteps ==
    \/ \E c \in 1..MaxCallers : LookupSubmit(c)
    \/ WorkerStart
    \/ \E w \in 1..MaxWorkers, info \in LookupInfos : WorkerStore(w, info)
    \/ \E w \in 1..MaxWorkers : WorkerSave(w, TRUE)
    \/ \E w \in 1..MaxWorkers : WorkerOnWhois(w)

\* the dashboard's polls, seeing the ip or no connection at all, the periodic
\* eviction, and the whois service; the clock stands still
NextCached ==
    \/ \E ip \in PolledIPs : PollsOf(ip)
    \/ \E ip \in PolledIPs : LogPollsOf(ip)
    \/ \E c \in 1..MaxCallers : ConnectionsWork(c, <<>>)
    \/ \E max_age_seconds \in MaxAges : TrimStaleProfiles(max_age_seconds)
    \/ ServiceSteps

\* the connection poll keeps seeing the ip (a poll that finds nothing to change is
\* a stuttering step), and the service's threads keep running
SpecCached ==
    /\ InitCached
    /\ [][NextCached]_vars
    /\ \A ip \in PolledIPs : WF_vars(PollsOf(ip))
    /\ WF_vars(ServiceSteps)

WhoisUnset(ip) == ip \in DOMAIN profiles /\ heap[profiles[ip]].whois = None
WhoisSet(ip) == ip \in DOMAIN profiles /\ heap[profiles[ip]].whois # None

NextAged ==
    \/ \E conns \in WindowBatches : UpdateConnections(conns)
    \/ \E entries \in LogBatches(now, {1024}, 1) : UpdateLogEntries(entries)
    \/ Tick(2 * WINDOW)

SpecAged == Init /\ [][NextAged]_vars

\* how many of the ingestion times ts fall in the 60 seconds before T
InWindow(ts, T) == Cardinality({i \in DOMAIN ts : ts[i] > T - WINDOW})

\* the ingestion times of the requests of ip that the engine holds
IngestedOf(ip) ==
    IF ip \in DOMAIN ip_request_timestamps THEN ip_request_timestamps[ip] ELSE <<>>

\* C37: the request rate that get_profiles() reports for a profile at time T, and the
\* requests-per-minute of get_aggregate_stats(), count only requests ingested in the
\* 60 seconds before T, also when no update_log_entries call has happened since
\* those requests aged out of the window.
C37_RatesCountWindow ==
    /\ \A ip \in Range(Surfaced(EngineState)) :
          WithRates(EngineState)[profiles[ip]].request_rate_per_min
              = InWindow(IngestedOf(ip), now)
    /\ AggregateStats(EngineState).requests_per_minute = InWindow(request_timestamps, now)

(***************************************************************************)
(* get_offender_summary and the per-ip request times of an evicted profile *)
(***************************************************************************)

TopN == 3       \* sorted_by_rate[:3]

\* ip_rates: the ips with a non-empty list of request times, and the list's length
IpRates(st) ==
    [ip \in {a \in DOMAIN st.ip_request_timestamps : st.ip_request_timestamps[a] # <<>>}
        |-> Len(st.ip_request_timestamps[ip])]

\* the ips of top_by_requests: those with fewer than three ips of a greater rate
\* (with no more than three rated ips, all of them)
TopByRequests(st) ==
    LET ip_rates == IpRates(st)
    IN  {ip \in DOMAIN ip_rates :
            Cardinality({a \in DOMAIN ip_rates : ip_rates[a] > ip_rates[ip]}) < TopN}

\* C38: every IP in get_offender_summary()'s top-by-request-rate list has a profile
\* that get_profiles() returns, and no profile that get_profiles() returns, one
\* recreated after eviction included, reports a request rate greater than its
\* cumulative request count (eviction leaves no per-IP rate state behind).
C38_NothingLeftBehind ==
    /\ TopByRequests(EngineState) \subseteq Range(Surfaced(EngineState))
    /\ \A ip \in Range(Surfaced(EngineState)) :
          LET p == WithRates(EngineState)[profiles[ip]]
          IN  p.request_rate_per_min <= p.total_requests

(***************************************************************************)
(* The known-ip set against the profile map                                *)
(***************************************************************************)

\* C39: the known-IP set is a subset of the profile map's keys and contains every IP
\* whose profile currently has at least one connection.
C39_KnownBetween ==
    /\ known_conn_ips \subseteq DOMAIN profiles
    /\ \A ip \in DOMAIN profiles :
          ProfileOf(ip).connections # <<>> => ip \in known_conn_ips

\* one ip is in the set with a connection; the other has been evicted after its
\* requests (its request times remain) and is neither in the map nor in the set
C39_Witness ==
    /\ \E ip \in known_conn_ips : ProfileOf(ip).connections # <<>>
    /\ \E ip \in DOMAIN ip_request_timestamps :
          ip \notin DOMAIN profiles /\ ip \notin known_conn_ips

(***************************************************************************)
(* first_seen and last_seen stamped by two clocks                          *)
(***************************************************************************)

\* the timestamps a line polled at time t can carry: the request was logged at the
\* time of the poll, or half a window before it
LineTimes(t) == {u \in {t - (WINDOW \div 2), t} : u >= 0}

\* the engine under connection polls, stamped with the wall clock, and log polls of
\* one line, stamped with the line's own time; the clock advances by half windows
NextStamps ==
    \/ \E conns \in WindowBatches : UpdateConnections(conns)
    \/ \E u \in LineTimes(now) :
          \E entries \in LogBatches(u, {1024}, 1) : UpdateLogEntries(entries)
    \/ Elapse

SpecStamps == Init /\ [][NextStamps]_vars

\* C40: every profile with both timestamps has first_seen <= last_seen, under any
\* order of update_connections calls (which stamp with the wall clock) and
\* update_log_entries calls (which stamp with the log line's own timestamp).
C40_FirstBeforeLast ==
    \A ip \in DOMAIN profiles :
        (ProfileOf(ip).first_seen # NoTime /\ ProfileOf(ip).last_seen # NoTime)
            => ProfileOf(ip).first_seen <= ProfileOf(ip).last_seen

====
